---- MODULE Spec2Model ----
(***************************************************************************)
(* Label-generation and baseline-aggregation engine of the                 *)
(* crypto-deployment-signal repository:                                    *)
(*   scripts/build_labels_v1.py            (label builder, ledger writer)  *)
(*   scripts/build_forecast_baseline_v1.py (baseline aggregator)           *)
(*                                                                         *)
(* Conventions of the model                                                *)
(*  - Prices are integers.  A percentage rounded to 4 decimals is the      *)
(*    integer pct*10^4 (3.0928 % is 30928); p_hit rounded to 6 decimals is *)
(*    the integer p*10^6.  Arithmetic is exact (no binary floating point). *)
(*  - A threshold is held in tenths of a percent (0.5 % is 5, 5.0 % is 50).*)
(*  - A text (a CSV cell, a Python str) is a sequence of tokens; the empty *)
(*    text "" is <<>>; the text spelling the number n is <<n>>.            *)
(*  - A Python value that may be None is a record with an isNone flag.     *)
(*  - A snapshot file is identified by a descriptor; load_json expands the *)
(*    descriptor to the JSON content of the file.  Paths are integers      *)
(*    whose order is the lexicographic order of the file names.            *)
(***************************************************************************)
EXTENDS Integers, Sequences, FiniteSets, TLC

(***************************************************************************)
(* Configuration constants                                                 *)
(***************************************************************************)
HORIZONS == <<12, 24, 36, 48, 60, 72, 84, 96>>

THRESHOLDS == <<5, 10, 20, 30, 50>>

HourSeconds == 3600

MaxHorizon == 96

BarFields == 6

EntryFields == 5

PctDecimals == 4

ProbDecimals == 6

HorizonSet == {HORIZONS[i] : i \in 1..Len(HORIZONS)}

ThresholdSet == {THRESHOLDS[i] : i \in 1..Len(THRESHOLDS)}

(***************************************************************************)
(* Python values                                                           *)
(***************************************************************************)
PyNone == [isNone |-> TRUE, text |-> <<>>]

PyStr(s) == [isNone |-> FALSE, text |-> s]

EMPTY == <<>>

Str(n) == <<n>>

NoInt == [isNone |-> TRUE, n |-> 0]

SomeInt(i) == [isNone |-> FALSE, n |-> i]

Min2(a, b) == IF a <= b THEN a ELSE b

Max2(a, b) == IF a >= b THEN a ELSE b

Pow10(k) == IF k = 4 THEN 10000 ELSE IF k = 6 THEN 1000000 ELSE 1

\* round(num/den, 0) for den # 0, ties to even, as Python's round() does
RoundDiv(num, den) ==
    LET n == IF den < 0 THEN 0 - num ELSE num
        d == IF den < 0 THEN 0 - den ELSE den
        q == n \div d
        r == n % d
    IN  IF 2 * r < d THEN q
        ELSE IF 2 * r > d THEN q + 1
        ELSE IF q % 2 = 0 THEN q ELSE q + 1

(***************************************************************************)
(* Snapshot files.  A descriptor stands for one immutable JSON file under  *)
(* data/history: candles for the hours from..to except the hour `hole`,    *)
(* every bar at price `base`, with a high raised by shv at hour sh and by  *)
(* sh2v at hour sh2, a low lowered by dlv at hour dh, and the bar of hour  *)
(* `bad` cut to badLen fields (a malformed bar).                           *)
(***************************************************************************)
NoHour == MaxHorizon * 1000

HasHole(d) == d.hole >= d.from /\ d.hole <= d.to

HourAt(d, i) ==
    LET h == d.from + i - 1
    IN  IF HasHole(d) /\ h >= d.hole THEN h + 1 ELSE h

BarAt(d, h) ==
    LET high == d.base + (IF h = d.sh THEN d.shv ELSE 0)
                       + (IF h = d.sh2 THEN d.sh2v ELSE 0)
        low  == d.base - (IF h = d.dh THEN d.dlv ELSE 0)
        full == <<HourSeconds * h, d.base, high, low, d.base, 1>>
    IN  IF h = d.bad THEN SubSeq(full, 1, d.badLen) ELSE full

\* A file may also be given by the list of its bars (field candles)
CandlesOf(d) ==
    IF "candles" \in DOMAIN d THEN d.candles
    ELSE LET n == IF d.to < d.from THEN 0
                  ELSE (d.to - d.from + 1) - (IF HasHole(d) THEN 1 ELSE 0)
         IN  [i \in 1..n |-> BarAt(d, HourAt(d, i))]

load_json(d) ==
    [published_at_utc   |-> d.pub,
     published_at_local |-> d.pub,
     date               |-> d.pub,
     candles            |-> CandlesOf(d)]

(***************************************************************************)
(* build_labels_v1.py: pure helpers                                        *)
(***************************************************************************)
\* A change measured against 1 when the base is 0 (not the code's; C21 has to tell it
\* from pct_change)
pct_change_unit_base(new, base) ==
    [num |-> (new - base) * 100, den |-> IF base = 0 THEN 1 ELSE base]

\* (new - base) / base * 100 as an exact fraction
pct_change(new, base) ==
    IF base = 0 THEN [num |-> 0, den |-> 1]
    ELSE [num |-> (new - base) * 100, den |-> base]

\* round(x, k) of a fraction, scaled by 10^k
round(x, k) == RoundDiv(x.num * Pow10(k), x.den)

Digit(d) ==
    CASE d = 0 -> "0" [] d = 1 -> "1" [] d = 2 -> "2" [] d = 3 -> "3"
      [] d = 4 -> "4" [] d = 5 -> "5" [] d = 6 -> "6" [] d = 7 -> "7"
      [] d = 8 -> "8" [] OTHER -> "9"

\* 0.5 -> "0p5", 1.0 -> "1", 5.0 -> "5"
fmt_thr(x) ==
    IF x % 10 = 0 THEN <<Digit(x \div 10)>>
    ELSE <<Digit(x \div 10), "p", Digit(x % 10)>>

ThrKeys == {fmt_thr(t) : t \in ThresholdSet}

\* sorted(glob(...)): the paths in increasing order
RECURSIVE SortedPaths(_)
SortedPaths(S) ==
    IF S = {} THEN <<>>
    ELSE LET m == CHOOSE d \in S : \A e \in S : d.path <= e.path
         IN  <<m>> \o SortedPaths(S \ {m})

iter_history_files(files) == SortedPaths(files)

\* The loops over bars are folded left to right by halves of the index range
\* lo..hi: the same iterations in the same order.  Evaluated(x) is TRUE; it
\* makes the model checker compute the result of the first half before it folds
\* the second half, which keeps the nesting depth logarithmic.
Mid(lo, hi) == (lo + hi) \div 2

Evaluated(x) == x = x

\* lines 80-84: the body of the loop over one snapshot's candles
\* A loop body in which the bar seen last replaces the stored one (not the code's;
\* C12 has to tell it from InsertCandle)
InsertCandle_last_wins(master, c) ==
    IF Len(c) = 0 \/ Len(c) < BarFields THEN master
    ELSE (c[1] :> c) @@ master

\* A loop body that only skips empty bars (not the code's; C13 has to tell it from
\* InsertCandle)
InsertCandle_keeps_short(master, c) ==
    IF Len(c) = 0 THEN master
    ELSE IF c[1] \notin DOMAIN master THEN master @@ (c[1] :> c)
    ELSE master

InsertCandle(master, c) ==
    IF Len(c) = 0 \/ Len(c) < BarFields THEN master
    ELSE IF c[1] \notin DOMAIN master THEN master @@ (c[1] :> c)
    ELSE master

RECURSIVE InsertCandles(_, _, _, _)
InsertCandles(master, candles, lo, hi) ==
    IF lo > hi THEN master
    ELSE IF lo = hi THEN InsertCandle(master, candles[lo])
    ELSE LET left == InsertCandles(master, candles, lo, Mid(lo, hi))
         IN  IF Evaluated(left) THEN InsertCandles(left, candles, Mid(lo, hi) + 1, hi)
             ELSE left

RECURSIVE MasterLoop(_, _, _)
MasterLoop(master, history_paths, j) ==
    IF j > Len(history_paths) THEN master
    ELSE LET candles == load_json(history_paths[j]).candles
         IN  MasterLoop(InsertCandles(master, candles, 1, Len(candles)),
                        history_paths, j + 1)

build_master_candle_map(history_paths) == MasterLoop(<<>>, history_paths, 1)

NoEntry == [isNone |-> TRUE, entry_ts |-> 0, entry_close |-> 0]

\* A resolver that takes a missing close as 0 (not the code's; C15 has to tell it from
\* get_entry_ts_and_close_from_snapshot)
get_entry_with_default_close(snap) ==
    LET candles == snap.candles
    IN  IF Len(candles) = 0 THEN NoEntry
        ELSE LET last == candles[Len(candles)]
             IN  IF Len(last) = 0 THEN NoEntry
                 ELSE [isNone |-> FALSE, entry_ts |-> last[1],
                       entry_close |-> IF Len(last) < EntryFields THEN 0 ELSE last[5]]

get_entry_ts_and_close_from_snapshot(snap) ==
    LET candles == snap.candles
    IN  IF Len(candles) = 0 THEN NoEntry
        ELSE LET last == candles[Len(candles)]
             IN  IF Len(last) < EntryFields THEN NoEntry
                 ELSE [isNone |-> FALSE, entry_ts |-> last[1], entry_close |-> last[5]]

NoWindow == [isNone |-> TRUE, bars |-> <<>>]

\* A loop body that fills a missing hour with a flat bar at the close before it
\* instead of giving the window up (not the code's; C5 has to tell it from WindowStep)
WindowStep_fill_missing(master, entry_ts, k, out) ==
    LET ts   == entry_ts + HourSeconds * k
        prev == IF out.bars = <<>> THEN 0 ELSE out.bars[Len(out.bars)][5]
    IN  IF ts \notin DOMAIN master
        THEN [isNone |-> FALSE, bars |-> Append(out.bars, <<ts, prev, prev, prev, prev, 0>>)]
        ELSE [isNone |-> FALSE, bars |-> Append(out.bars, master[ts])]

\* lines 122-126: the body of the loop over k; a None result is final
WindowStep(master, entry_ts, k, out) ==
    LET ts == entry_ts + HourSeconds * k
    IN  IF out.isNone THEN out
        ELSE IF ts \notin DOMAIN master THEN NoWindow
        ELSE [isNone |-> FALSE, bars |-> Append(out.bars, master[ts])]

RECURSIVE WindowLoop(_, _, _, _, _)
WindowLoop(master, entry_ts, lo, hi, out) ==
    IF lo > hi THEN out
    ELSE IF lo = hi THEN WindowStep(master, entry_ts, lo, out)
    ELSE LET left == WindowLoop(master, entry_ts, lo, Mid(lo, hi), out)
         IN  IF Evaluated(left) THEN WindowLoop(master, entry_ts, Mid(lo, hi) + 1, hi, left)
             ELSE left

\* A window that falls back to the hours before the first missing one
\* (not the code's; C4 has to tell it from forward_window)
forward_window_partial(master, entry_ts, hours) ==
    LET lead == {k \in 1..hours : \A j \in 1..k : (entry_ts + HourSeconds * j) \in DOMAIN master}
    IN  [isNone |-> FALSE,
         bars   |-> [k \in 1..Cardinality(lead) |-> master[entry_ts + HourSeconds * k]]]

forward_window(master, entry_ts, hours) ==
    WindowLoop(master, entry_ts, 1, hours, [isNone |-> FALSE, bars |-> <<>>])

SeqMax(s) == CHOOSE x \in {s[i] : i \in 1..Len(s)} : \A i \in 1..Len(s) : s[i] <= x

SeqMin(s) == CHOOSE x \in {s[i] : i \in 1..Len(s)} : \A i \in 1..Len(s) : s[i] >= x

compute_continuous_labels(entry_close, fwd) ==
    LET highs    == [i \in 1..Len(fwd) |-> fwd[i][3]]
        lows     == [i \in 1..Len(fwd) |-> fwd[i][4]]
        closes   == [i \in 1..Len(fwd) |-> fwd[i][5]]
        max_high == SeqMax(highs)
        min_low  == SeqMin(lows)
        end_close == closes[Len(closes)]
    IN  [max_up_pct       |-> round(pct_change(max_high, entry_close), PctDecimals),
         max_down_pct     |-> round(pct_change(min_low, entry_close), PctDecimals),
         close_change_pct |-> round(pct_change(end_close, entry_close), PctDecimals),
         range_pct        |-> IF entry_close # 0
                              THEN round([num |-> (max_high - min_low) * 100,
                                          den |-> entry_close], PctDecimals)
                              ELSE 0]

\* lines 157-160: cur_min starts at +infinity, so the first low replaces it
RunningMinStep(fwd96, i, out) ==
    LET low     == fwd96[i][4]
        cur_min == IF out = <<>> THEN low ELSE Min2(out[Len(out)], low)
    IN  Append(out, cur_min)

RECURSIVE RunningMinLoop(_, _, _, _)
RunningMinLoop(fwd96, lo, hi, out) ==
    IF lo > hi THEN out
    ELSE IF lo = hi THEN RunningMinStep(fwd96, lo, out)
    ELSE LET left == RunningMinLoop(fwd96, lo, Mid(lo, hi), out)
         IN  IF Evaluated(left) THEN RunningMinLoop(fwd96, Mid(lo, hi) + 1, hi, left)
             ELSE left

running_min_low(fwd96) == RunningMinLoop(fwd96, 1, Len(fwd96), <<>>)

\* lines 164-167: cur_max starts at -infinity
RunningMaxStep(fwd96, i, out) ==
    LET high    == fwd96[i][3]
        cur_max == IF out = <<>> THEN high ELSE Max2(out[Len(out)], high)
    IN  Append(out, cur_max)

RECURSIVE RunningMaxLoop(_, _, _, _)
RunningMaxLoop(fwd96, lo, hi, out) ==
    IF lo > hi THEN out
    ELSE IF lo = hi THEN RunningMaxStep(fwd96, lo, out)
    ELSE LET left == RunningMaxLoop(fwd96, lo, Mid(lo, hi), out)
         IN  IF Evaluated(left) THEN RunningMaxLoop(fwd96, Mid(lo, hi) + 1, hi, left)
             ELSE left

running_max_high(fwd96) == RunningMaxLoop(fwd96, 1, Len(fwd96), <<>>)

\* A strict comparison with the target (not the code's; C10 has to tell it from ReachedUp)
ReachedUp_strict(rmh, entry_close, thr) == rmh * 1000 > entry_close * (1000 + thr)

\* rmh >= entry_close * (1 + thr/100), thr in tenths of a percent
ReachedUp(rmh, entry_close, thr) == rmh * 1000 >= entry_close * (1000 + thr)

\* The comparison turned round (not the code's; C27 has to tell it from ReachedDown)
ReachedDown_above(rml, entry_close, thr) ==
    rml * 1000 >= entry_close * (1000 - thr)

\* rml <= entry_close * (1 - thr/100)
ReachedDown(rml, entry_close, thr) == rml * 1000 <= entry_close * (1000 - thr)

\* lines 177-180: the loop breaks at the first index that reaches the target
RECURSIVE HitUpLoop(_, _, _, _, _)
HitUpLoop(rmhs, entry_close, thr, lo, hi) ==
    IF lo > hi THEN EMPTY
    ELSE IF lo = hi
         THEN (IF ReachedUp(rmhs[lo], entry_close, thr) THEN Str(lo) ELSE EMPTY)
    ELSE LET first == HitUpLoop(rmhs, entry_close, thr, lo, Mid(lo, hi))
         IN  IF first # EMPTY THEN first
             ELSE HitUpLoop(rmhs, entry_close, thr, Mid(lo, hi) + 1, hi)

hit_up_t(rmhs, entry_close, thr) == HitUpLoop(rmhs, entry_close, thr, 1, Len(rmhs))

\* lines 186-189
RECURSIVE HitDownLoop(_, _, _, _, _)
HitDownLoop(rmls, entry_close, thr, lo, hi) ==
    IF lo > hi THEN EMPTY
    ELSE IF lo = hi
         THEN (IF ReachedDown(rmls[lo], entry_close, thr) THEN Str(lo) ELSE EMPTY)
    ELSE LET first == HitDownLoop(rmls, entry_close, thr, lo, Mid(lo, hi))
         IN  IF first # EMPTY THEN first
             ELSE HitDownLoop(rmls, entry_close, thr, Mid(lo, hi) + 1, hi)

hit_dn_t(rmls, entry_close, thr) == HitDownLoop(rmls, entry_close, thr, 1, Len(rmls))

\* The drawdown without the clamp of line 198 (not the code's; C6 has to tell it from mdd_val)
mdd_val_unclamped(rmls, entry_close, hit) ==
    IF hit # EMPTY
    THEN Str(round(pct_change(SeqMin(SubSeq(rmls, 1, hit[1])), entry_close), PctDecimals))
    ELSE EMPTY

\* A drawdown of 0 for a target that was never hit (not the code's; C11 has to tell
\* it from mdd_val)
mdd_val_zero_when_no_hit(rmls, entry_close, hit) ==
    IF hit # EMPTY
    THEN Str(Min2(0, round(pct_change(SeqMin(SubSeq(rmls, 1, hit[1])), entry_close), PctDecimals)))
    ELSE Str(0)

\* lines 193-200
mdd_val(rmls, entry_close, hit) ==
    IF hit # EMPTY
    THEN LET t          == hit[1]
             min_before == SeqMin(SubSeq(rmls, 1, t))
             mdd_pct    == round(pct_change(min_before, entry_close), PctDecimals)
         IN  Str(Min2(0, mdd_pct))
    ELSE EMPTY

ThrOfKey(k) == CHOOSE t \in ThresholdSet : fmt_thr(t) = k

compute_time_to_hit_and_mdd(entry_close, fwd96) ==
    LET rmls == running_min_low(fwd96)
        rmhs == running_max_high(fwd96)
        up   == [k \in ThrKeys |-> hit_up_t(rmhs, entry_close, ThrOfKey(k))]
    IN  [t_hit_up          |-> up,
         t_hit_down        |-> [k \in ThrKeys |-> hit_dn_t(rmls, entry_close, ThrOfKey(k))],
         mdd_before_hit_up |-> [k \in ThrKeys |-> mdd_val(rmls, entry_close, up[k])]]

build_header == [horizons |-> HorizonSet, thr_keys |-> ThrKeys]

(***************************************************************************)
(* The ledger file data/labels/labels_v1.csv                               *)
(***************************************************************************)
NoFile == [exists |-> FALSE, header |-> [horizons |-> {}, thr_keys |-> {}], rows |-> <<>>]

\* csv.DictWriter: None is written as the empty field, a str as itself
CsvCell(v) == IF v.isNone THEN EMPTY ELSE v.text

writerow(row) ==
    [row EXCEPT !.published_at_utc   = CsvCell(@),
                !.published_at_local = CsvCell(@),
                !.date_local         = CsvCell(@),
                !.history_file       = CsvCell(@)]

\* csv.DictReader: every field read back is a str
read_existing_keys(file) ==
    IF ~file.exists THEN {}
    ELSE {<<PyStr(file.rows[i].published_at_utc), PyStr(file.rows[i].history_file)>> :
            i \in 1..Len(file.rows)}

\* os.path.relpath(path): the path as a str
relpath(d) == PyStr(Str(d.path))

\* lines 274-300 of main: the row of one snapshot from its entry point and window
make_row(d, snap, entry, fwd96) ==
    LET cont == [h \in HorizonSet |->
                    compute_continuous_labels(entry.entry_close, SubSeq(fwd96, 1, Min2(h, Len(fwd96))))]
        ttm  == compute_time_to_hit_and_mdd(entry.entry_close, fwd96)
    IN  [published_at_utc   |-> snap.published_at_utc,
         published_at_local |-> snap.published_at_local,
         date_local         |-> snap.date,
         history_file       |-> relpath(d),
         entry_ts_utc       |-> Str(entry.entry_ts),
         entry_close        |-> Str(entry.entry_close),
         max_up_pct         |-> [h \in HorizonSet |-> Str(cont[h].max_up_pct)],
         max_down_pct       |-> [h \in HorizonSet |-> Str(cont[h].max_down_pct)],
         close_change_pct   |-> [h \in HorizonSet |-> Str(cont[h].close_change_pct)],
         range_pct          |-> [h \in HorizonSet |-> Str(cont[h].range_pct)],
         t_hit_up           |-> ttm.t_hit_up,
         t_hit_down         |-> ttm.t_hit_down,
         mdd_before_hit_up  |-> ttm.mdd_before_hit_up]

(***************************************************************************)
(* build_forecast_baseline_v1.py                                           *)
(***************************************************************************)
\* to_int: int(float(s)), None when s does not spell a number
to_int(cell) == IF Len(cell) = 1 THEN SomeInt(cell[1]) ELSE NoInt

\* to_float: float(s), None when s does not spell a number
to_float(cell) == IF Len(cell) = 1 THEN SomeInt(cell[1]) ELSE NoInt

\* q is in hundredths and the result is the quantile times QuantScale, which is exact
\* for sorted_vals of integers: pos = (n - 1) * q / 100, lo = int(pos), frac = pos - lo
QuantScale == 100

\* The value at position lo, without interpolation (not the code's; C18 has to tell it
\* from quantile)
quantile_lower_value(sorted_vals, q) ==
    IF Len(sorted_vals) = 0 THEN NoInt
    ELSE SomeInt(sorted_vals[(((Len(sorted_vals) - 1) * q) \div QuantScale) + 1] * QuantScale)

quantile(sorted_vals, q) ==
    IF Len(sorted_vals) = 0 THEN NoInt
    ELSE IF Len(sorted_vals) = 1 THEN SomeInt(sorted_vals[1] * QuantScale)
    ELSE LET pos  == (Len(sorted_vals) - 1) * q
             lo   == pos \div QuantScale
             hi   == Min2(lo + 1, Len(sorted_vals) - 1)
             frac == pos - lo * QuantScale
         IN  SomeInt(sorted_vals[lo + 1] * (QuantScale - frac) + sorted_vals[hi + 1] * frac)

\* load_labels_rows: csv.DictReader gives each row the columns of the header
load_labels_rows(file) == file.rows

\* Only the rows with a hit time counted (not the code's; C19 has to tell it from
\* RowsWithColumn)
RowsWithHitTime(rows, thr_key) ==
    {i \in 1..Len(rows) : thr_key \in DOMAIN rows[i].t_hit_up /\ rows[i].t_hit_up[thr_key] # EMPTY}

\* lines 106-126: the rows that have the column, and those among them that hit
RowsWithColumn(rows, thr_key) ==
    {i \in 1..Len(rows) : thr_key \in DOMAIN rows[i].t_hit_up}

\* A hit counted only at the horizon it falls on (not the code's; C8 has to tell it from IsHit)
IsHit_at_horizon_only(r, thr_key, h) ==
    LET t == to_int(r.t_hit_up[thr_key])
    IN  ~t.isNone /\ t.n = h

\* lines 117-120: t is not None and t <= h
IsHit(r, thr_key, h) ==
    LET t == to_int(r.t_hit_up[thr_key])
    IN  ~t.isNone /\ t.n <= h

HitRows(rows, thr_key, h) ==
    {i \in RowsWithColumn(rows, thr_key) : IsHit(rows[i], thr_key, h)}

\* The share of hits as a percentage (not the code's; C9 has to tell it from p_hit)
p_hit_as_percent(n_hit, n_total) ==
    IF n_total # 0 THEN round([num |-> 100 * n_hit, den |-> n_total], ProbDecimals) ELSE 0

\* line 128 and line 146: round(p_hit, 6), scaled by 10^6
p_hit(n_hit, n_total) ==
    IF n_total # 0 THEN round([num |-> n_hit, den |-> n_total], ProbDecimals) ELSE 0

\* sorted(...)
sorted(vals) == SortSeq(vals, LAMBDA a, b : a < b)

summarize_hits(hit_times) ==
    LET hit_times_sorted == sorted(hit_times)
    IN  [p25    |-> quantile(hit_times_sorted, 25),
         median |-> quantile(hit_times_sorted, 50),
         p75    |-> quantile(hit_times_sorted, 75)]

summarize_mdd(mdds) ==
    LET mdds_sorted == sorted(mdds)
    IN  [p25    |-> quantile(mdds_sorted, 25),
         median |-> quantile(mdds_sorted, 50),
         p75    |-> quantile(mdds_sorted, 75)]

\* lines 130-139: the three quantiles are None when the list is empty
NoStats == [p25 |-> NoInt, median |-> NoInt, p75 |-> NoInt]

\* r.get(mddcol, "")
MddCell(r, thr_key) ==
    IF thr_key \in DOMAIN r.mdd_before_hit_up THEN r.mdd_before_hit_up[thr_key] ELSE EMPTY

\* lines 117-126: the hit times, and the clamped drawdowns of the hits that have one, in
\* the order of the rows
hit_times(rows, thr_key, h) ==
    LET hits == SelectSeq(rows, LAMBDA r : thr_key \in DOMAIN r.t_hit_up /\ IsHit(r, thr_key, h))
    IN  [i \in 1..Len(hits) |-> to_int(hits[i].t_hit_up[thr_key]).n]

hit_mdds(rows, thr_key, h) ==
    LET hits == SelectSeq(rows, LAMBDA r : /\ thr_key \in DOMAIN r.t_hit_up
                                          /\ IsHit(r, thr_key, h)
                                          /\ ~to_float(MddCell(r, thr_key)).isNone)
    IN  [i \in 1..Len(hits) |-> Min2(0, to_float(MddCell(hits[i], thr_key)).n)]

\* A cell that shows an absent quantile as 0 (not the code's; C20 has to tell it from
\* csv_quantile)
csv_quantile_zero_for_none(x) == IF x.isNone THEN Str(0) ELSE Str(x.n)

\* lines 147-152: "" if the quantile is None else str(round(quantile, n)); the rounding
\* is exact for quantiles at quarters of values with 4 decimals
csv_quantile(x) == IF x.isNone THEN EMPTY ELSE Str(x.n)

\* lines 141-153: the row of baseline_probs_v1.csv
row_out(thr, h, n_total, n_hit, p, t_stats, mdd_stats) ==
    [target_pct   |-> thr,
     horizon_h    |-> h,
     n_total      |-> Str(n_total),
     n_hit        |-> Str(n_hit),
     p_hit        |-> Str(p),
     t_hit_p25    |-> csv_quantile(t_stats.p25),
     t_hit_median |-> csv_quantile(t_stats.median),
     t_hit_p75    |-> csv_quantile(t_stats.p75),
     mdd_p25      |-> csv_quantile(mdd_stats.p25),
     mdd_median   |-> csv_quantile(mdd_stats.median),
     mdd_p75      |-> csv_quantile(mdd_stats.p75)]

\* lines 105-162: one (threshold, horizon) entry of the JSON results, and its CSV row
baseline_stat(rows, thr, h) ==
    LET thr_key   == fmt_thr(thr)
        n_total   == Cardinality(RowsWithColumn(rows, thr_key))
        n_hit     == Cardinality(HitRows(rows, thr_key, h))
        times     == hit_times(rows, thr_key, h)
        mdds      == hit_mdds(rows, thr_key, h)
        t_stats   == IF times # <<>> THEN summarize_hits(times) ELSE NoStats
        mdd_stats == IF mdds # <<>> THEN summarize_mdd(mdds) ELSE NoStats
    IN  [n_total |-> n_total, n_hit |-> n_hit, p_hit |-> p_hit(n_hit, n_total),
         t_hit_p25 |-> t_stats.p25, t_hit_median |-> t_stats.median, t_hit_p75 |-> t_stats.p75,
         mdd_p25 |-> mdd_stats.p25, mdd_median |-> mdd_stats.median, mdd_p75 |-> mdd_stats.p75,
         csv |-> row_out(thr, h, n_total, n_hit, p_hit(n_hit, n_total), t_stats, mdd_stats)]

NoBaseline == [exists |-> FALSE, results |-> <<>>]

\* lines 8-11: the two files the aggregator writes, as directory, name and extension
OUT_CSV == [dir |-> "data/forecast", name |-> "baseline_probs_v1", ext |-> "csv"]

OUT_JSON == [dir |-> "data/forecast", name |-> "baseline_summary_v1", ext |-> "json"]

\* lines 89-96 and 156: the top-level keys of baseline_summary_v1.json
baseline_json_keys ==
    {"schema", "source_labels", "n_rows_labels", "thresholds", "horizons", "results"}

\* lines 98-99 and 154: out_rows, one row per threshold and horizon, thresholds outermost
baseline_csv_rows(b) ==
    [i \in 1..(Len(THRESHOLDS) * Len(HORIZONS)) |->
        b.results[THRESHOLDS[((i - 1) \div Len(HORIZONS)) + 1]]
                 [HORIZONS[((i - 1) % Len(HORIZONS)) + 1]].csv]

\* the baseline files under data/ (nothing else in the repository writes one)
baseline_files(b) == IF b.exists THEN {OUT_CSV, OUT_JSON} ELSE {}

(***************************************************************************)
(* build_hourly_forecast_v1.py                                             *)
(***************************************************************************)
BASELINE_CANDIDATES ==
    << [dir |-> "data/forecast", name |-> "baseline_v1", ext |-> "json"],
       [dir |-> "data/forecast", name |-> "baseline_v1", ext |-> "csv"],
       [dir |-> "data", name |-> "forecast_baseline_v1", ext |-> "json"],
       [dir |-> "data", name |-> "forecast_baseline_v1", ext |-> "csv"],
       [dir |-> "data", name |-> "baseline_v1", ext |-> "json"],
       [dir |-> "data", name |-> "baseline_v1", ext |-> "csv"],
       [dir |-> "data/labels", name |-> "forecast_baseline_v1", ext |-> "json"],
       [dir |-> "data/labels", name |-> "forecast_baseline_v1", ext |-> "csv"] >>

\* 0.5, in tenths of a percent like THRESHOLDS
DEFAULT_TARGET_PCT == 5

DEFAULT_HORIZON_HOURS == 12

NoPath == [isNone |-> TRUE, path |-> [dir |-> "", name |-> "", ext |-> ""]]

\* the first candidate that is a file
find_baseline_file(files) ==
    LET found == {i \in 1..Len(BASELINE_CANDIDATES) : BASELINE_CANDIDATES[i] \in files}
    IN  IF found = {} THEN NoPath
        ELSE [isNone |-> FALSE,
              path |-> BASELINE_CANDIDATES[CHOOSE i \in found : \A j \in found : i <= j]]

\* r.get(col) on a row of csv.DictReader: None for a column the file does not have.
\* The model keeps target_pct and horizon_h of a baseline row as numbers; the file has
\* their str().
csv_get(r, col) ==
    IF col \notin DOMAIN r THEN PyNone
    ELSE IF col \in {"target_pct", "horizon_h"} THEN PyStr(Str(r[col]))
    ELSE PyStr(r[col])

\* safe_float: None for None, "" and text that does not spell a number
safe_float(x) ==
    IF x.isNone \/ x.text = EMPTY THEN NoInt
    ELSE IF Len(x.text) = 1 THEN SomeInt(x.text[1]) ELSE NoInt

\* extract_probability_from_baseline on a file the aggregator wrote.  JSON: the rows
\* are b["rows"] when b is a dict with a list under "rows", and none otherwise
\* (lines 71-76).  CSV: the first row whose target_pct and horizon_hours match
\* (lines 105-113).
extract_probability_from_baseline(b, baseline_path, target_pct, horizon_hours) ==
    IF baseline_path.ext = "json"
    THEN LET rows == IF "rows" \in baseline_json_keys THEN b.rows ELSE <<>>
         IN  IF rows = <<>>
             THEN [p_hit |-> NoInt, reason |-> "pair_not_found_in_json_baseline"]
             ELSE [p_hit |-> NoInt, reason |-> "json_rows"]
    ELSE LET rows == baseline_csv_rows(b)
             matches(i) ==
                 LET t == safe_float(csv_get(rows[i], "target_pct"))
                     h == safe_float(csv_get(rows[i], "horizon_hours"))
                 IN  /\ ~t.isNone
                     /\ ~h.isNone
                     /\ t.n = target_pct
                     /\ h.n = horizon_hours
             found == {i \in 1..Len(rows) : matches(i)}
         IN  IF found = {} THEN [p_hit |-> NoInt, reason |-> "pair_not_found_in_csv_baseline"]
             ELSE LET best == rows[CHOOSE i \in found : \A j \in found : i <= j]
                  IN  [p_hit |-> safe_float(csv_get(best, "p_hit")), reason |-> ""]

NoForecast ==
    [exists |-> FALSE, target_pct |-> 0, horizon_hours |-> 0, p_hit |-> NoInt,
     baseline_found |-> FALSE, reason |-> ""]

(***************************************************************************)
(* validate_forecast_baseline_v1.py                                        *)
(***************************************************************************)
\* THRESHOLDS of the validator: the texts "0.5", "1.0", "2.0", "3.0", "5.0"
VALIDATOR_THRESHOLDS ==
    << <<"0", ".", "5">>, <<"1", ".", "0">>, <<"2", ".", "0">>,
       <<"3", ".", "0">>, <<"5", ".", "0">> >>

\* str(x) of a float with no fraction, written like an int (not the code's; C29 has to
\* tell it from str_float)
str_float_short(x) ==
    IF x % 10 = 0 THEN <<Digit(x \div 10)>>
    ELSE <<Digit(x \div 10), ".", Digit(x % 10)>>

\* build_forecast_baseline_v1.py line 142: str(thr) of the float thr (in tenths here)
str_float(x) == <<Digit(x \div 10), ".", Digit(x % 10)>>

\* to_int of the validator: int(s), None when s does not spell an integer
validator_to_int(cell) == IF Len(cell) = 1 THEN SomeInt(cell[1]) ELSE NoInt

\* to_float of the validator
validator_to_float(cell) == IF Len(cell) = 1 THEN SomeInt(cell[1]) ELSE NoInt

\* lines 46-52: the rows by (target_pct text, horizon); a later row replaces an
\* earlier one with the same key.  NoInt stands for m.get(...) is None.
validator_map(rows, t, h) ==
    LET at == {i \in 1..Len(rows) :
                  /\ str_float(rows[i].target_pct) = t
                  /\ str_float(rows[i].target_pct) # EMPTY
                  /\ rows[i].horizon_h = h}
    IN  IF at = {} THEN [isNone |-> TRUE, row |-> <<>>]
        ELSE [isNone |-> FALSE, row |-> rows[CHOOSE i \in at : \A j \in at : j <= i]]

\* lines 61-83 for the row r = m.get((t, h)): is the pair missing, are its counts bad,
\* and how many probability issues it adds.  p_hit is kept times 10^6, so
\* p_hit < -1e-9 or > 1 + 1e-9 is p < 0 or p > 10^6, and
\* abs(p_hit - n_hit/n_total) > 1e-6 is |p * n_total - n_hit * 10^6| > n_total.
validator_pair(r) ==
    IF r.isNone THEN [missing |-> 1, bad_counts |-> 0, bad_prob |-> 0]
    ELSE LET n_total == validator_to_int(r.row.n_total)
             n_hit   == validator_to_int(r.row.n_hit)
             p       == validator_to_float(r.row.p_hit)
         IN  IF n_total.isNone \/ n_hit.isNone \/ p.isNone
             THEN [missing |-> 0, bad_counts |-> 1, bad_prob |-> 0]
             ELSE LET scale == Pow10(ProbDecimals)
                      diff  == IF n_total.n # 0
                               THEN p.n * n_total.n - n_hit.n * scale
                               ELSE p.n
                      tol   == IF n_total.n # 0 THEN n_total.n ELSE 1
                  IN  [missing    |-> 0,
                       bad_counts |-> IF n_total.n < 0 \/ n_hit.n < 0 \/ n_hit.n > n_total.n
                                      THEN 1 ELSE 0,
                       bad_prob   |-> (IF p.n < 0 \/ p.n > scale THEN 1 ELSE 0)
                                    + (IF diff > tol \/ -diff > tol THEN 1 ELSE 0)]

\* lines 96-109 for the threshold at index ti, m being the map of lines 46-52: the
\* horizons whose p_hit is below the p_hit of the nearest earlier horizon that has one
validator_mono_viol(m, ti) ==
    LET ps == [i \in 1..Len(HORIZONS) |->
                  IF m[<<ti, HORIZONS[i]>>].isNone THEN NoInt
                  ELSE validator_to_float(m[<<ti, HORIZONS[i]>>].row.p_hit)]
        prev(i) == CHOOSE j \in 1..(i - 1) :
                       ~ps[j].isNone /\ \A k \in (j + 1)..(i - 1) : ps[k].isNone
    IN  Cardinality({i \in 2..Len(HORIZONS) :
                        /\ ~ps[i].isNone
                        /\ \E j \in 1..(i - 1) : ~ps[j].isNone
                        /\ ps[i].n < ps[prev(i)].n})

RECURSIVE SumOver(_, _)
SumOver(f, S) ==
    IF S = {} THEN 0
    ELSE LET x == CHOOSE y \in S : TRUE IN f[x] + SumOver(f, S \ {x})

NoReport ==
    [status |-> "", missing_pairs |-> 0, bad_counts |-> 0, bad_prob |-> 0, mono_viol |-> 0]

\* main of the validator on the aggregator's CSV file (the tables rows, m and res are
\* computed once, before the sums)
validate_forecast_baseline(b) ==
    IF ~b.exists THEN [NoReport EXCEPT !.status = "FAIL"]
    ELSE LET rows  == baseline_csv_rows(b)
             pairs == (1..Len(VALIDATOR_THRESHOLDS)) \X HorizonSet
             m     == [x \in pairs |-> validator_map(rows, VALIDATOR_THRESHOLDS[x[1]], x[2])]
             res   == [x \in pairs |-> validator_pair(m[x])]
             missing_pairs == SumOver([x \in pairs |-> res[x].missing], pairs)
             bad_counts    == SumOver([x \in pairs |-> res[x].bad_counts], pairs)
             bad_prob      == SumOver([x \in pairs |-> res[x].bad_prob], pairs)
             mono_viol     == SumOver([i \in 1..Len(VALIDATOR_THRESHOLDS) |->
                                          validator_mono_viol(m, i)],
                                      1..Len(VALIDATOR_THRESHOLDS))
         IN  IF ~(Evaluated(rows) /\ Evaluated(m) /\ Evaluated(res)) THEN NoReport ELSE
             [status        |-> IF missing_pairs > 0 THEN "WARN"
                                ELSE IF bad_counts > 0 \/ bad_prob > 0 \/ mono_viol > 0
                                THEN "WARN" ELSE "OK",
              missing_pairs |-> missing_pairs,
              bad_counts    |-> bad_counts,
              bad_prob      |-> bad_prob,
              mono_viol     |-> mono_viol]

(***************************************************************************)
(* repair_labels_v1.py                                                     *)
(***************************************************************************)
THR_KEYS == << <<"0", "p", "5">>, <<"1">>, <<"2">>, <<"3">>, <<"5">> >>

\* parse_float: float(s), None when s does not spell a number
parse_float(cell) == IF Len(cell) = 1 THEN SomeInt(cell[1]) ELSE NoInt

\* A test for any number but 0 (not the code's; C24 has to tell it from needs_fix)
needs_fix_nonzero(r, k) ==
    /\ k \in DOMAIN r.mdd_before_hit_up
    /\ r.mdd_before_hit_up[k] # EMPTY
    /\ ~parse_float(r.mdd_before_hit_up[k]).isNone
    /\ parse_float(r.mdd_before_hit_up[k]).n # 0

\* lines 34-46 for one cell: is it replaced by "0.0"?
needs_fix(r, k) ==
    /\ k \in DOMAIN r.mdd_before_hit_up
    /\ r.mdd_before_hit_up[k] # EMPTY
    /\ ~parse_float(r.mdd_before_hit_up[k]).isNone
    /\ parse_float(r.mdd_before_hit_up[k]).n > 0

\* lines 33-46 for one row
repair_row(r) ==
    [r EXCEPT !.mdd_before_hit_up =
        [k \in DOMAIN @ |->
            IF (\E i \in 1..Len(THR_KEYS) : THR_KEYS[i] = k) /\ needs_fix(r, k)
            THEN Str(0) ELSE @[k]]]

\* the value of fixes after the loop of lines 33-46
count_fixes(rows) ==
    Cardinality({<<n, i>> \in (1..Len(rows)) \X (1..Len(THR_KEYS)) : needs_fix(rows[n], THR_KEYS[i])})

IdleRepair ==
    [pc |-> "idle", rows |-> <<>>, fieldnames |-> [horizons |-> {}, thr_keys |-> {}],
     runs |-> 0, fixes |-> <<>>]

(***************************************************************************)
(* State                                                                   *)
(*   history  the snapshot files under data/history (added by the          *)
(*            acquisition job, never changed afterwards)                   *)
(*   ledger   the file data/labels/labels_v1.csv                           *)
(*   baseline the files data/forecast/baseline_*_v1.*                      *)
(*   run      per label-builder process: its position in main and main's   *)
(*            local variables; buf holds the rows written to the append    *)
(*            handle that the buffered writer has not yet put in the file  *)
(*   runs     number of label-builder runs started                         *)
(*   runlog   history variable: one entry per finished label-builder run   *)
(*   probe    inputs and result of a direct call of forward_window         *)
(*   tprobe   result of a direct call of build_master_candle_map on the    *)
(*            files of history                                             *)
(*   qprobe   inputs and result of a direct call of quantile               *)
(*   agg_exit exit status of the last aggregator process (None: none ran)  *)
(*   forecast the file data/hourly_forecast.json                           *)
(*   repair   the repair utility's process: its position in main, the rows *)
(*            and field names it read, runs started, and (history) the     *)
(*            value of fixes of each run that wrote the file               *)
(*   report   the report last printed by validate_forecast_baseline_v1     *)
(***************************************************************************)
VARIABLES history, ledger, baseline, run, runs, runlog, probe, tprobe, qprobe, agg_exit,
          forecast, repair, report

vars == <<history, ledger, baseline, run, runs, runlog, probe, tprobe, qprobe, agg_exit,
          forecast, repair, report>>

MaxRuns == 2

MaxFiles == 3

MaxHours == 4

MaxLedgerRows == 3

MaxRepairs == 2

Procs == {1, 2}

Snap(path, pub, from, to, hole, base) ==
    [path |-> path, pub |-> pub, from |-> from, to |-> to, hole |-> hole, base |-> base,
     sh |-> NoHour, shv |-> 0, sh2 |-> NoHour, sh2v |-> 0, dh |-> NoHour, dlv |-> 0,
     bad |-> NoHour, badLen |-> 0]

\* The snapshot files the acquisition job may publish
Catalogue ==
    { Snap(1, PyStr(<<"p1">>), -41, 0, NoHour, 100),
      Snap(2, PyNone, 0, 0, NoHour, 100),
      Snap(3, PyStr(EMPTY), 0, 0, NoHour, 100),
      Snap(4, PyStr(<<"p4">>), -42, -42, NoHour, 100),
      [Snap(5, PyStr(<<"p5">>), 1, 96, 55, 100) EXCEPT !.sh = 20, !.shv = 3],
      Snap(6, PyStr(<<"p6">>), 55, 55, NoHour, 100) }

IdleRun ==
    [pc |-> "idle", history_paths |-> <<>>, master |-> <<>>, existing |-> {},
     idx |-> 0, added |-> 0, skipped_dupe |-> 0, skipped_missing |-> 0, buf |-> <<>>]

NoProbe == [master |-> <<>>, entry_ts |-> 0, hours |-> 0, called |-> FALSE, out |-> NoWindow]

NoTimelineProbe == [called |-> FALSE, out |-> <<>>]

NoQuantileProbe == [sorted_vals |-> <<>>, q |-> 0, called |-> FALSE, out |-> NoInt]

Init ==
    /\ history = {}
    /\ ledger = NoFile
    /\ baseline = NoBaseline
    /\ run = [p \in Procs |-> IdleRun]
    /\ runs = 0
    /\ runlog = <<>>
    /\ probe = NoProbe
    /\ tprobe = NoTimelineProbe
    /\ qprobe = NoQuantileProbe
    /\ agg_exit = NoInt
    /\ forecast = NoForecast
    /\ repair = IdleRepair
    /\ report = NoReport

\* exit_code: main returns (lines 237, 242) or falls off its end, and the
\* interpreter then ends with status 0
LogEntry(r, past, file) ==
    [paths |-> r.history_paths, past_checks |-> past, added |-> r.added,
     skipped_dupe |-> r.skipped_dupe, skipped_missing |-> r.skipped_missing,
     ledger |-> file, exit_code |-> 0]

\* The acquisition job publishes one more snapshot file
AddSnapshot ==
    /\ Cardinality(history) < MaxFiles
    /\ \E d \in Catalogue \ history : history' = history \cup {d}
    /\ UNCHANGED <<ledger, baseline, run, runs, runlog, probe, tprobe, qprobe, agg_exit,
                 forecast, repair, report>>

\* main, lines 235-243: list the files, build the timeline, return if there is none
Start(p) ==
    /\ run[p].pc \in {"idle", "done"}
    /\ runs < MaxRuns
    /\ runs' = runs + 1
    /\ LET history_paths == iter_history_files(history)
           master == IF history_paths = <<>> THEN <<>>
                     ELSE build_master_candle_map(history_paths)
           r == [IdleRun EXCEPT !.history_paths = history_paths, !.master = master]
       IN  IF history_paths = <<>> \/ DOMAIN master = {}
           THEN /\ run' = [run EXCEPT ![p] = [r EXCEPT !.pc = "done", !.master = <<>>]]
                /\ runlog' = Append(runlog, LogEntry(r, FALSE, ledger))
           ELSE /\ run' = [run EXCEPT ![p] = [r EXCEPT !.pc = "read_keys"]]
                /\ runlog' = runlog
    /\ UNCHANGED <<history, ledger, baseline, probe, tprobe, qprobe, agg_exit,
                 forecast, repair, report>>

\* main, line 245
ReadKeys(p) ==
    /\ run[p].pc = "read_keys"
    /\ run' = [run EXCEPT ![p] = [@ EXCEPT !.existing = read_existing_keys(ledger),
                                           !.pc = "check_header"]]
    /\ UNCHANGED <<history, ledger, baseline, runs, runlog, probe, tprobe, qprobe, agg_exit,
                 forecast, repair, report>>

\* ensure_out_header without its isfile test (not the code's; C22 has to tell it from
\* CheckHeader)
CheckHeader_always_writes(p) ==
    /\ run[p].pc = "check_header"
    /\ run' = [run EXCEPT ![p] = [@ EXCEPT !.idx = 1, !.pc = "write_header"]]
    /\ UNCHANGED <<history, ledger, baseline, runs, runlog, probe, tprobe, qprobe, agg_exit,
                 forecast, repair, report>>

\* ensure_out_header, lines 60-62: return if the file is there
CheckHeader(p) ==
    /\ run[p].pc = "check_header"
    /\ run' = [run EXCEPT ![p] = [@ EXCEPT !.idx = 1,
                   !.pc = IF ledger.exists THEN "loop" ELSE "write_header"]]
    /\ UNCHANGED <<history, ledger, baseline, runs, runlog, probe, tprobe, qprobe, agg_exit,
                 forecast, repair, report>>

\* ensure_out_header, lines 63-65: open(OUT_CSV, "w") truncates, then the header
WriteHeader(p) ==
    /\ run[p].pc = "write_header"
    /\ ledger' = [exists |-> TRUE, header |-> build_header, rows |-> <<>>]
    /\ run' = [run EXCEPT ![p] = [@ EXCEPT !.pc = "loop"]]
    /\ UNCHANGED <<history, baseline, runs, runlog, probe, tprobe, qprobe, agg_exit,
                 forecast, repair, report>>

\* The loop with no count for a snapshot whose window is incomplete (not the code's;
\* C25 has to tell it from LoopStep)
LoopStep_uncounted_gap(p) ==
    /\ run[p].pc = "loop"
    /\ run[p].idx <= Len(run[p].history_paths)
    /\ LET r     == run[p]
           d     == r.history_paths[r.idx]
           snap  == load_json(d)
           key   == <<snap.published_at_utc, relpath(d)>>
           entry == get_entry_ts_and_close_from_snapshot(snap)
           fwd96 == forward_window(r.master, entry.entry_ts, MaxHorizon)
           next  == [r EXCEPT !.idx = @ + 1]
       IN  run' = [run EXCEPT ![p] =
                IF key \in r.existing
                THEN [next EXCEPT !.skipped_dupe = @ + 1]
                ELSE IF entry.isNone
                THEN [next EXCEPT !.skipped_missing = @ + 1]
                ELSE IF fwd96.isNone
                THEN next
                ELSE [next EXCEPT !.added = @ + 1,
                                  !.buf = Append(@, writerow(make_row(d, snap, entry, fwd96.bars)))]]
    /\ UNCHANGED <<history, ledger, baseline, runs, runlog, probe, tprobe, qprobe, agg_exit,
                 forecast, repair, report>>

\* The loop writing a row without labels for a snapshot whose window is incomplete
\* (not the code's; C28 has to tell it from LoopStep)
LoopStep_records_gap(p) ==
    /\ run[p].pc = "loop"
    /\ run[p].idx <= Len(run[p].history_paths)
    /\ LET r     == run[p]
           d     == r.history_paths[r.idx]
           snap  == load_json(d)
           key   == <<snap.published_at_utc, relpath(d)>>
           entry == get_entry_ts_and_close_from_snapshot(snap)
           fwd96 == forward_window(r.master, entry.entry_ts, MaxHorizon)
           next  == [r EXCEPT !.idx = @ + 1]
       IN  run' = [run EXCEPT ![p] =
                IF key \in r.existing
                THEN [next EXCEPT !.skipped_dupe = @ + 1]
                ELSE IF entry.isNone
                THEN [next EXCEPT !.skipped_missing = @ + 1]
                ELSE IF fwd96.isNone
                THEN [next EXCEPT !.skipped_missing = @ + 1,
                                  !.buf = Append(@, writerow(
                                     [published_at_utc   |-> snap.published_at_utc,
                                      published_at_local |-> snap.published_at_local,
                                      date_local         |-> snap.date,
                                      history_file       |-> relpath(d),
                                      entry_ts_utc       |-> Str(entry.entry_ts),
                                      entry_close        |-> Str(entry.entry_close),
                                      max_up_pct         |-> [h \in HorizonSet |-> EMPTY],
                                      max_down_pct       |-> [h \in HorizonSet |-> EMPTY],
                                      close_change_pct   |-> [h \in HorizonSet |-> EMPTY],
                                      range_pct          |-> [h \in HorizonSet |-> EMPTY],
                                      t_hit_up           |-> [k \in ThrKeys |-> EMPTY],
                                      t_hit_down         |-> [k \in ThrKeys |-> EMPTY],
                                      mdd_before_hit_up  |-> [k \in ThrKeys |-> EMPTY]]))]
                ELSE [next EXCEPT !.added = @ + 1,
                                  !.buf = Append(@, writerow(make_row(d, snap, entry, fwd96.bars)))]]
    /\ UNCHANGED <<history, ledger, baseline, runs, runlog, probe, tprobe, qprobe, agg_exit,
                 forecast, repair, report>>

\* main, lines 256-303: one iteration of the loop over history_paths
LoopStep(p) ==
    /\ run[p].pc = "loop"
    /\ run[p].idx <= Len(run[p].history_paths)
    /\ LET r     == run[p]
           d     == r.history_paths[r.idx]
           snap  == load_json(d)
           key   == <<snap.published_at_utc, relpath(d)>>
           entry == get_entry_ts_and_close_from_snapshot(snap)
           fwd96 == forward_window(r.master, entry.entry_ts, MaxHorizon)
           next  == [r EXCEPT !.idx = @ + 1]
       IN  run' = [run EXCEPT ![p] =
                IF key \in r.existing
                THEN [next EXCEPT !.skipped_dupe = @ + 1]
                ELSE IF entry.isNone
                THEN [next EXCEPT !.skipped_missing = @ + 1]
                ELSE IF fwd96.isNone
                THEN [next EXCEPT !.skipped_missing = @ + 1]
                ELSE [next EXCEPT !.added = @ + 1,
                                  !.buf = Append(@, writerow(make_row(d, snap, entry, fwd96.bars)))]]
    /\ UNCHANGED <<history, ledger, baseline, runs, runlog, probe, tprobe, qprobe, agg_exit,
                 forecast, repair, report>>

\* The buffered writer of the append handle puts its pending rows in the file
Flush(p) ==
    /\ run[p].pc = "loop"
    /\ run[p].buf # <<>>
    /\ ledger' = [ledger EXCEPT !.exists = TRUE, !.rows = @ \o run[p].buf]
    /\ run' = [run EXCEPT ![p] = [@ EXCEPT !.buf = <<>>]]
    /\ UNCHANGED <<history, baseline, runs, runlog, probe, tprobe, qprobe, agg_exit,
                 forecast, repair, report>>

\* main, lines 253 and 305-308: leaving the with block closes (and flushes) the file
Close(p) ==
    /\ run[p].pc = "loop"
    /\ run[p].idx > Len(run[p].history_paths)
    /\ ledger' = [ledger EXCEPT !.exists = TRUE, !.rows = @ \o run[p].buf]
    /\ run' = [run EXCEPT ![p] = [@ EXCEPT !.buf = <<>>, !.pc = "done", !.master = <<>>]]
    /\ runlog' = Append(runlog, LogEntry(run[p], TRUE, ledger'))
    /\ UNCHANGED <<history, baseline, runs, probe, tprobe, qprobe, agg_exit,
                 forecast, repair, report>>

Builder(p) ==
    \/ Start(p) \/ ReadKeys(p) \/ CheckHeader(p) \/ WriteHeader(p)
    \/ LoopStep(p) \/ Flush(p) \/ Close(p)

\* build_forecast_baseline_v1.main.  load_labels_rows raises FileNotFoundError for a
\* missing ledger (lines 72-73): nothing catches it and the interpreter ends with
\* status 1.  An empty ledger returns at line 84 with status 0.  Nothing is written in
\* either case.
Aggregate ==
    /\ IF ~ledger.exists
       THEN /\ agg_exit' = SomeInt(1)
            /\ baseline' = baseline
       ELSE IF load_labels_rows(ledger) = <<>>
       THEN /\ agg_exit' = SomeInt(0)
            /\ baseline' = baseline
       ELSE /\ agg_exit' = SomeInt(0)
            /\ LET rows == load_labels_rows(ledger)
               IN  baseline' = [exists |-> TRUE,
                                results |-> [t \in ThresholdSet |->
                                                [h \in HorizonSet |-> baseline_stat(rows, t, h)]]]
    /\ UNCHANGED <<history, ledger, run, runs, runlog, probe, tprobe, qprobe, forecast, repair, report>>

\* build_hourly_forecast_v1.main, lines 131-173, with data/hourly_signal.json present
\* (without it main ends at line 134 and writes nothing)
Forecast ==
    /\ LET baseline_path == find_baseline_file(baseline_files(baseline))
           found == IF baseline_path.isNone
                    THEN [p_hit |-> NoInt, reason |-> ""]
                    ELSE extract_probability_from_baseline(baseline, baseline_path.path,
                             DEFAULT_TARGET_PCT, DEFAULT_HORIZON_HOURS)
       IN  forecast' = [exists |-> TRUE,
                        target_pct |-> DEFAULT_TARGET_PCT,
                        horizon_hours |-> DEFAULT_HORIZON_HOURS,
                        p_hit |-> found.p_hit,
                        baseline_found |-> ~baseline_path.isNone,
                        reason |-> found.reason]
    /\ UNCHANGED <<history, ledger, baseline, run, runs, runlog, probe, tprobe, qprobe, agg_exit, repair, report>>

\* validate_forecast_baseline_v1.main: the report it prints
Validate ==
    /\ report' = validate_forecast_baseline(baseline)
    /\ UNCHANGED <<history, ledger, baseline, run, runs, runlog, probe, tprobe, qprobe, agg_exit,
                   forecast, repair>>

\* repair_labels_v1.main, lines 19-30: return if there is no file, read all the rows,
\* return if there are none
RepairRead ==
    /\ repair.pc \in {"idle", "done"}
    /\ repair.runs < MaxRepairs
    /\ repair' =
         IF ~ledger.exists \/ ledger.rows = <<>>
         THEN [repair EXCEPT !.pc = "done", !.runs = @ + 1, !.rows = <<>>]
         ELSE [repair EXCEPT !.pc = "loaded", !.runs = @ + 1, !.rows = ledger.rows,
                             !.fieldnames = ledger.header]
    /\ UNCHANGED <<history, ledger, baseline, run, runs, runlog, probe, tprobe, qprobe, agg_exit, forecast, report>>

\* lines 32-55: clamp the rows read, then open(LABELS_PATH, "w") and write them all
RepairWrite ==
    /\ repair.pc = "loaded"
    /\ ledger' = [exists |-> TRUE,
                  header |-> repair.fieldnames,
                  rows   |-> [n \in 1..Len(repair.rows) |-> repair_row(repair.rows[n])]]
    /\ repair' = [repair EXCEPT !.pc = "done", !.rows = <<>>,
                                !.fixes = Append(@, count_fixes(repair.rows))]
    /\ UNCHANGED <<history, baseline, run, runs, runlog, probe, tprobe, qprobe, agg_exit, forecast, report>>

(***************************************************************************)
(* Spec: label-builder runs one after another over a growing snapshot set, *)
(* and the aggregator at any time                                          *)
(***************************************************************************)
Next == AddSnapshot \/ Builder(1) \/ Aggregate

Spec == Init /\ [][Next]_vars

(***************************************************************************)
(* SpecConc: two label-builder processes over one fixed snapshot set       *)
(***************************************************************************)
InitConc ==
    /\ history \in {S \in SUBSET Catalogue : S # {} /\ Cardinality(S) <= MaxFiles}
    /\ ledger = NoFile
    /\ baseline = NoBaseline
    /\ run = [p \in Procs |-> IdleRun]
    /\ runs = 0
    /\ runlog = <<>>
    /\ probe = NoProbe
    /\ tprobe = NoTimelineProbe
    /\ qprobe = NoQuantileProbe
    /\ agg_exit = NoInt
    /\ forecast = NoForecast
    /\ repair = IdleRepair
    /\ report = NoReport

NextConc == \E p \in Procs : Builder(p)

SpecConc == InitConc /\ [][NextConc]_vars

(***************************************************************************)
(* SpecLabel: one entry snapshot at hour 0 and one snapshot that holds the *)
(* 96 hours after it, over a range of entry prices and price paths         *)
(***************************************************************************)
EntryCloses == {100, 97, 0, -100}

EntrySnaps == {Snap(1, PyStr(<<"p1">>), 0, 0, NoHour, ec) : ec \in EntryCloses}

WindowSnaps ==
    { [Snap(2, PyStr(<<"p2">>), 1, 96, NoHour, 100) EXCEPT
          !.sh = sh, !.shv = shv, !.sh2 = 60, !.sh2v = sh2v, !.dh = dh, !.dlv = dlv] :
      sh \in {1, 12, 13, 20, 96}, shv \in {1, 3, 6}, sh2v \in {0, 4},
      dh \in {1, 10, 20, 50}, dlv \in {0, 2, 10} }

InitLabel ==
    /\ \E e \in EntrySnaps, w \in WindowSnaps : history = {e, w}
    /\ ledger = NoFile
    /\ baseline = NoBaseline
    /\ run = [p \in Procs |-> IdleRun]
    /\ runs = 0
    /\ runlog = <<>>
    /\ probe = NoProbe
    /\ tprobe = NoTimelineProbe
    /\ qprobe = NoQuantileProbe
    /\ agg_exit = NoInt
    /\ forecast = NoForecast
    /\ repair = IdleRepair
    /\ report = NoReport

NextLabel == Builder(1)

SpecLabel == InitLabel /\ [][NextLabel]_vars

(***************************************************************************)
(* SpecWindow: forward_window called on timelines over a few hours         *)
(***************************************************************************)
TimelineBar(h) == <<HourSeconds * h, 100, 100 + h, 100 - h, 100, 1>>

TimelineOf(S) == [ts \in {HourSeconds * h : h \in S} |-> TimelineBar(ts \div HourSeconds)]

InitWindow ==
    /\ history = {}
    /\ ledger = NoFile
    /\ baseline = NoBaseline
    /\ run = [p \in Procs |-> IdleRun]
    /\ runs = 0
    /\ runlog = <<>>
    /\ \E S \in SUBSET (0..(MaxHours + 2)), e \in {0, 1}, H \in 0..MaxHours :
          probe = [NoProbe EXCEPT !.master = TimelineOf(S),
                                  !.entry_ts = HourSeconds * e, !.hours = H]
    /\ tprobe = NoTimelineProbe
    /\ qprobe = NoQuantileProbe
    /\ agg_exit = NoInt
    /\ forecast = NoForecast
    /\ repair = IdleRepair
    /\ report = NoReport

CallForwardWindow ==
    /\ ~probe.called
    /\ probe' = [probe EXCEPT !.called = TRUE,
                              !.out = forward_window(probe.master, probe.entry_ts, probe.hours)]
    /\ UNCHANGED <<history, ledger, baseline, run, runs, runlog, tprobe, qprobe, agg_exit,
                 forecast, repair, report>>

NextWindow == CallForwardWindow

SpecWindow == InitWindow /\ [][NextWindow]_vars

(***************************************************************************)
(* SpecEntry: label-builder runs over snapshot sets in which the entry     *)
(* point of a file may be missing: no bars, a last bar of 4 fields, a last *)
(* bar of 5 fields (no volume)                                             *)
(***************************************************************************)
EntryCatalogue ==
    { Snap(1, PyStr(<<"p1">>), 0, 0, NoHour, 100),
      Snap(2, PyStr(<<"p2">>), 1, 0, NoHour, 100),
      [Snap(3, PyStr(<<"p3">>), 0, 0, NoHour, 100) EXCEPT !.bad = 0, !.badLen = EntryFields - 1],
      [Snap(4, PyStr(<<"p4">>), 0, 0, NoHour, 100) EXCEPT !.bad = 0, !.badLen = EntryFields],
      Snap(5, PyStr(<<"p5">>), -1, -1, NoHour, 100),
      Snap(6, PyStr(<<"p6">>), 1, 96, NoHour, 100) }

InitEntry ==
    /\ history \in SUBSET EntryCatalogue \ {{}}
    /\ ledger = NoFile
    /\ baseline = NoBaseline
    /\ run = [p \in Procs |-> IdleRun]
    /\ runs = 0
    /\ runlog = <<>>
    /\ probe = NoProbe
    /\ tprobe = NoTimelineProbe
    /\ qprobe = NoQuantileProbe
    /\ agg_exit = NoInt
    /\ forecast = NoForecast
    /\ repair = IdleRepair
    /\ report = NoReport

NextEntry == Builder(1)

SpecEntry == InitEntry /\ [][NextEntry]_vars

(***************************************************************************)
(* SpecTimeline: build_master_candle_map called on two snapshot files      *)
(* whose bars repeat timestamps, within a file and across the files, and   *)
(* may be malformed                                                        *)
(***************************************************************************)
MaxBars == 2

ProbeBar(h, v, len) == SubSeq(<<HourSeconds * h, v, v, v, v, 1>>, 1, len)

\* well-formed bars of two hours with two contents, a 5-field bar and an empty bar
ProbeBars ==
    {ProbeBar(h, v, BarFields) : h \in {0, 1}, v \in {1, 2}}
        \cup {ProbeBar(0, 1, BarFields - 1), <<>>}

ProbeSnap(path, candles) == [path |-> path, pub |-> PyStr(Str(path)), candles |-> candles]

SeqsOfBars(n) == UNION {[1..k -> ProbeBars] : k \in 0..n}

InitTimeline ==
    /\ \E c1, c2 \in SeqsOfBars(MaxBars) : history = {ProbeSnap(1, c1), ProbeSnap(2, c2)}
    /\ ledger = NoFile
    /\ baseline = NoBaseline
    /\ run = [p \in Procs |-> IdleRun]
    /\ runs = 0
    /\ runlog = <<>>
    /\ probe = NoProbe
    /\ tprobe = NoTimelineProbe
    /\ qprobe = NoQuantileProbe
    /\ agg_exit = NoInt
    /\ forecast = NoForecast
    /\ repair = IdleRepair
    /\ report = NoReport

CallBuildMaster ==
    /\ ~tprobe.called
    /\ tprobe' = [called |-> TRUE,
                  out    |-> build_master_candle_map(iter_history_files(history))]
    /\ UNCHANGED <<history, ledger, baseline, run, runs, runlog, probe, qprobe, agg_exit,
                 forecast, repair, report>>

NextTimeline == CallBuildMaster

SpecTimeline == InitTimeline /\ [][NextTimeline]_vars

(***************************************************************************)
(* SpecQuantile: quantile called on sorted lists                           *)
(***************************************************************************)
MaxVals == 4

QuantileVals == {-2, 1, 2, 3, 4, 5}

Quantiles == {0, 25, 50, 75, 100}

SortedLists(n) ==
    {v \in UNION {[1..k -> QuantileVals] : k \in 0..n} :
        \A i \in 1..(Len(v) - 1) : v[i] <= v[i + 1]}

InitQuantile ==
    /\ history = {}
    /\ ledger = NoFile
    /\ baseline = NoBaseline
    /\ run = [p \in Procs |-> IdleRun]
    /\ runs = 0
    /\ runlog = <<>>
    /\ probe = NoProbe
    /\ tprobe = NoTimelineProbe
    /\ \E v \in SortedLists(MaxVals), q \in Quantiles :
          qprobe = [NoQuantileProbe EXCEPT !.sorted_vals = v, !.q = q]
    /\ agg_exit = NoInt
    /\ forecast = NoForecast
    /\ repair = IdleRepair
    /\ report = NoReport

CallQuantile ==
    /\ ~qprobe.called
    /\ qprobe' = [qprobe EXCEPT !.called = TRUE, !.out = quantile(qprobe.sorted_vals, qprobe.q)]
    /\ UNCHANGED <<history, ledger, baseline, run, runs, runlog, probe, tprobe, agg_exit,
                 forecast, repair, report>>

NextQuantile == CallQuantile

SpecQuantile == InitQuantile /\ [][NextQuantile]_vars

(***************************************************************************)
(* SpecAgg: the aggregator on ledgers of any content                       *)
(***************************************************************************)
\* t_hit_up cells: empty, not a number ("0 0"), and numbers in and out of 1..96
TCells == {EMPTY, <<0, 0>>, Str(0), Str(13), Str(97)}

Headers == {ThrKeys, ThrKeys \ {fmt_thr(10)}}

\* the drawdown cell next to a hit cell: -2.5 beside 13, 0.5 (a positive value, which
\* the aggregator clamps to 0) beside 24, and empty beside the others, 0 included
MddCellFor(cell) ==
    IF cell = Str(13) THEN Str(-25000) ELSE IF cell = Str(24) THEN Str(5000) ELSE EMPTY

\* a ledger row whose t_hit_up_1 cell is c1 and whose other t_hit_up cells are c
LedgerRow(keys, c, c1) ==
    [published_at_utc   |-> EMPTY,
     published_at_local |-> EMPTY,
     date_local         |-> EMPTY,
     history_file       |-> EMPTY,
     entry_ts_utc       |-> Str(0),
     entry_close        |-> Str(100),
     max_up_pct         |-> [h \in HorizonSet |-> Str(0)],
     max_down_pct       |-> [h \in HorizonSet |-> Str(0)],
     close_change_pct   |-> [h \in HorizonSet |-> Str(0)],
     range_pct          |-> [h \in HorizonSet |-> Str(0)],
     t_hit_up           |-> [k \in keys |-> IF k = fmt_thr(10) THEN c1 ELSE c],
     t_hit_down         |-> [k \in keys |-> EMPTY],
     mdd_before_hit_up  |-> [k \in keys |-> MddCellFor(IF k = fmt_thr(10) THEN c1 ELSE c)]]

LedgerRows(keys) == {LedgerRow(keys, c, c1) : c \in TCells, c1 \in {EMPTY, Str(24)}}

SeqsUpTo(S, n) == UNION {[1..k -> S] : k \in 0..n}

InitAgg ==
    /\ history = {}
    /\ \E keys \in Headers : \E rows \in SeqsUpTo(LedgerRows(keys), MaxLedgerRows) :
          ledger = [exists |-> TRUE,
                    header |-> [horizons |-> HorizonSet, thr_keys |-> keys],
                    rows   |-> rows]
    /\ baseline = NoBaseline
    /\ run = [p \in Procs |-> IdleRun]
    /\ runs = 0
    /\ runlog = <<>>
    /\ probe = NoProbe
    /\ tprobe = NoTimelineProbe
    /\ qprobe = NoQuantileProbe
    /\ agg_exit = NoInt
    /\ forecast = NoForecast
    /\ repair = IdleRepair
    /\ report = NoReport

NextAgg == Aggregate

SpecAgg == InitAgg /\ [][NextAgg]_vars

(***************************************************************************)
(* SpecForecast: the aggregator and the forecast builder over the ledgers  *)
(* of SpecAgg                                                              *)
(***************************************************************************)
InitForecast == InitAgg

NextForecast == Aggregate \/ Forecast

SpecForecast == InitForecast /\ [][NextForecast]_vars

(***************************************************************************)
(* SpecValidate: the aggregator and the baseline validator over the        *)
(* ledgers of SpecAgg                                                      *)
(***************************************************************************)
InitValidate == InitAgg

NextValidate == Aggregate \/ Validate

SpecValidate == InitValidate /\ [][NextValidate]_vars

(***************************************************************************)
(* SpecRepair: runs of the repair utility, one after another, over ledgers *)
(* whose drawdown cells are empty, not a number, negative, zero or         *)
(* positive; also over a missing and an empty ledger                       *)
(***************************************************************************)
MaxRepairRows == 2

\* mdd_before_hit_up cells: empty, not a number ("0 0"), -2.5, 0.0 and 0.5
RepairCells == {EMPTY, <<0, 0>>, Str(-25000), Str(0), Str(5000)}

\* a ledger row whose mdd_before_hit_up_1 cell is c1 and whose other drawdown cells are c
RepairRow(keys, c, c1) ==
    [LedgerRow(keys, Str(13), Str(13)) EXCEPT
        !.mdd_before_hit_up = [k \in keys |-> IF k = fmt_thr(10) THEN c1 ELSE c]]

RepairRows(keys) == {RepairRow(keys, c, c1) : c \in RepairCells, c1 \in {EMPTY, Str(5000)}}

InitRepair ==
    /\ history = {}
    /\ \/ ledger = NoFile
       \/ \E keys \in Headers : \E rows \in SeqsUpTo(RepairRows(keys), MaxRepairRows) :
             ledger = [exists |-> TRUE,
                       header |-> [horizons |-> HorizonSet, thr_keys |-> keys],
                       rows   |-> rows]
    /\ baseline = NoBaseline
    /\ run = [p \in Procs |-> IdleRun]
    /\ runs = 0
    /\ runlog = <<>>
    /\ probe = NoProbe
    /\ tprobe = NoTimelineProbe
    /\ qprobe = NoQuantileProbe
    /\ agg_exit = NoInt
    /\ forecast = NoForecast
    /\ repair = IdleRepair
    /\ report = NoReport

NextRepair == RepairRead \/ RepairWrite

SpecRepair == InitRepair /\ [][NextRepair]_vars

(***************************************************************************)
(* SpecRepairConc: a repair-utility process beside the label builder, on a *)
(* snapshot set that gives the builder one or two rows to append and a     *)
(* ledger that is missing or holds one earlier row with a positive         *)
(* drawdown cell                                                           *)
(***************************************************************************)
ConcHistories ==
    { {Snap(1, PyStr(<<"p1">>), -41, 0, NoHour, 100),
       [Snap(5, PyStr(<<"p5">>), 1, 96, 55, 100) EXCEPT !.sh = 20, !.shv = 3],
       Snap(6, PyStr(<<"p6">>), 55, 55, NoHour, 100)} \cup extra :
      extra \in {{}, {Snap(7, PyStr(<<"p7">>), 0, 0, NoHour, 97)}} }

InitRepairConc ==
    /\ history \in ConcHistories
    /\ \/ ledger = NoFile
       \/ \E c \in RepairCells :
             ledger = [exists |-> TRUE,
                       header |-> build_header,
                       rows   |-> <<RepairRow(ThrKeys, c, Str(5000))>>]
    /\ baseline = NoBaseline
    /\ run = [p \in Procs |-> IdleRun]
    /\ runs = 0
    /\ runlog = <<>>
    /\ probe = NoProbe
    /\ tprobe = NoTimelineProbe
    /\ qprobe = NoQuantileProbe
    /\ agg_exit = NoInt
    /\ forecast = NoForecast
    /\ repair = IdleRepair
    /\ report = NoReport

NextRepairConc == Builder(1) \/ RepairRead \/ RepairWrite

SpecRepairConc == InitRepairConc /\ [][NextRepairConc]_vars

(***************************************************************************)
(* Definitions used by the properties                                      *)
(***************************************************************************)
RowKey(r) == <<r.published_at_utc, r.history_file>>

\* the key under which the row of snapshot d is stored in the file
StoredKey(d) == <<CsvCell(d.pub), CsvCell(relpath(d))>>

DuplicateFree(rows) ==
    \A i, j \in 1..Len(rows) : i # j => RowKey(rows[i]) # RowKey(rows[j])

TimelineNow == build_master_candle_map(iter_history_files(history))

HourPresent(master, entry_ts, k) == (entry_ts + HourSeconds * k) \in DOMAIN master

PendingRows == run[1].buf \o run[2].buf

AllRows == ledger.rows \o PendingRows

HorizonPairs == {<<a, b>> \in HorizonSet \X HorizonSet : a < b}

(***************************************************************************)
(* C1  Idempotence: a label-builder run over the snapshot set of the run   *)
(* before it appends no row and leaves the ledger as that run left it.     *)
(***************************************************************************)
C1_SecondRunAddsNothing ==
    \A i \in 1..(Len(runlog) - 1) :
        runlog[i + 1].paths = runlog[i].paths
            => /\ runlog[i + 1].added = 0
               /\ runlog[i + 1].ledger = runlog[i].ledger

\* C1 restricted to snapshots that carry a published_at_utc string
C1_SecondRunAddsNothing_WithPublishedAt ==
    \A i \in 1..(Len(runlog) - 1) :
        /\ runlog[i + 1].paths = runlog[i].paths
        /\ \A j \in 1..Len(runlog[i].paths) : ~runlog[i].paths[j].pub.isNone
        => /\ runlog[i + 1].added = 0
           /\ runlog[i + 1].ledger = runlog[i].ledger

(***************************************************************************)
(* C2  After any sequence of sequential label-builder runs no two rows of  *)
(* the ledger have the same key (published_at_utc, history_file).          *)
(***************************************************************************)
C2_LedgerKeysUnique == DuplicateFree(ledger.rows)

(***************************************************************************)
(* C3  When two label-builder processes have each run once, concurrently,  *)
(* over the same snapshot set, no key is in more than one row of the       *)
(* ledger.  Stated for the keys of snapshots that carry a published_at_utc *)
(* string, which leaves out the duplicates of C1.                          *)
(***************************************************************************)
C3_ConcurrentRunsDuplicateFree ==
    (run[1].pc = "done" /\ run[2].pc = "done")
        => \A i, j \in 1..Len(ledger.rows) :
              (i # j /\ ledger.rows[i].published_at_utc # EMPTY)
                  => RowKey(ledger.rows[i]) # RowKey(ledger.rows[j])

(***************************************************************************)
(* C4  forward_window(master, entry_ts, H) returns the H bars stored at    *)
(* entry_ts + 3600*k, k = 1..H, in that order, when all H timestamps are   *)
(* keys of master, and None exactly when one of them is not a key.         *)
(***************************************************************************)
C4_ForwardWindowAllOrNothing ==
    probe.called =>
        LET all == \A k \in 1..probe.hours : HourPresent(probe.master, probe.entry_ts, k)
        IN  /\ probe.out.isNone <=> ~all
            /\ all => /\ Len(probe.out.bars) = probe.hours
                      /\ \A k \in 1..probe.hours :
                            probe.out.bars[k] = probe.master[probe.entry_ts + HourSeconds * k]
            /\ probe.out.isNone => probe.out.bars = <<>>

\* a window of at least 3 hours whose only missing hour is hour 2 is not available
C4_Witness ==
    /\ probe.called
    /\ probe.hours >= 3
    /\ \A k \in 1..probe.hours : HourPresent(probe.master, probe.entry_ts, k) <=> k # 2
    /\ probe.out.isNone

(***************************************************************************)
(* C5  A snapshot whose 96-hour forward window has a missing hour gets no  *)
(* row: neither the ledger nor a writer's pending rows hold its key.       *)
(***************************************************************************)
C5_GapSnapshotHasNoRow ==
    LET master == TimelineNow
    IN  \A d \in history :
            LET entry == get_entry_ts_and_close_from_snapshot(load_json(d))
            IN  \* by contraposition: a snapshot that has a row has a complete window
                (\E i \in 1..Len(AllRows) : RowKey(AllRows[i]) = StoredKey(d))
                    => (entry.isNone \/ \A k \in 1..MaxHorizon : HourPresent(master, entry.entry_ts, k))

\* a finished run over a timeline that lacks hour 55 only: the snapshot entered at
\* hour 0 was skipped and the snapshot after it in path order got its row
C5_Witness ==
    /\ Len(runlog) = 1
    /\ run[1].pc = "done"
    /\ LET master == TimelineNow
       IN  /\ \A k \in 1..MaxHorizon : HourPresent(master, 0, k) <=> k # 55
           /\ \E d \in history, e \in history :
                 /\ d.path < e.path
                 /\ get_entry_ts_and_close_from_snapshot(load_json(d)).entry_ts = 0
                 /\ \A i \in 1..Len(ledger.rows) : RowKey(ledger.rows[i]) # StoredKey(d)
                 /\ \E i \in 1..Len(ledger.rows) : RowKey(ledger.rows[i]) = StoredKey(e)
    /\ runlog[1].paths = iter_history_files(history)
    /\ runlog[1].skipped_missing >= 1
    /\ runlog[1].added >= 1

(***************************************************************************)
(* C6  In every row the label builder appends, for every threshold,        *)
(* mdd_before_hit_up is empty or <= 0.                                     *)
(***************************************************************************)
C6_DrawdownNeverPositive ==
    \A i \in 1..Len(AllRows) : \A k \in ThrKeys :
        LET cell == AllRows[i].mdd_before_hit_up[k]
        IN  cell = EMPTY \/ cell[1] <= 0

\* entry_close 97 under lows of at least 98: the change of the lowest low is positive
C6_Witness ==
    \E i \in 1..Len(ledger.rows) :
        /\ ledger.rows[i].entry_close = Str(97)
        /\ ledger.rows[i].t_hit_up[fmt_thr(5)] = Str(1)
        /\ ledger.rows[i].max_down_pct[96] # EMPTY
        /\ ledger.rows[i].max_down_pct[96][1] > 0
        /\ ledger.rows[i].mdd_before_hit_up[fmt_thr(5)] = Str(0)

(***************************************************************************)
(* C7  In every row the label builder appends, for horizons h1 < h2,       *)
(* max_up_pct_h1 <= max_up_pct_h2 and range_pct_h1 <= range_pct_h2.        *)
(***************************************************************************)
C7_ExtremaGrowWithHorizon ==
    \A i \in 1..Len(AllRows) : \A hh \in HorizonPairs :
        /\ AllRows[i].max_up_pct[hh[1]][1] <= AllRows[i].max_up_pct[hh[2]][1]
        /\ AllRows[i].range_pct[hh[1]][1] <= AllRows[i].range_pct[hh[2]][1]

\* C7 for the rows whose entry_close is not negative
C7_ExtremaGrowWithHorizon_NonNegativeEntry ==
    \A i \in 1..Len(AllRows) : \A hh \in HorizonPairs :
        AllRows[i].entry_close[1] >= 0 =>
            /\ AllRows[i].max_up_pct[hh[1]][1] <= AllRows[i].max_up_pct[hh[2]][1]
            /\ AllRows[i].range_pct[hh[1]][1] <= AllRows[i].range_pct[hh[2]][1]

(***************************************************************************)
(* C8  For every ledger content and every threshold, the p_hit values of   *)
(* the baseline do not decrease as the horizon grows.                      *)
(***************************************************************************)
C8_PHitMonotoneInHorizon ==
    baseline.exists =>
        \A t \in ThresholdSet : \A hh \in HorizonPairs :
            baseline.results[t][hh[1]].p_hit <= baseline.results[t][hh[2]].p_hit

\* a baseline whose p_hit for threshold 0.5 rises from horizon 12 to horizon 24
C8_Witness ==
    /\ baseline.exists
    /\ baseline.results[5][12].p_hit > 0
    /\ baseline.results[5][12].p_hit < baseline.results[5][24].p_hit
    /\ baseline.results[5][24].p_hit < Pow10(ProbDecimals)

(***************************************************************************)
(* C9  For every (threshold, horizon) pair of the baseline,                *)
(* 0 <= n_hit <= n_total, p_hit is in [0, 1] when n_total > 0, and p_hit   *)
(* is 0 when n_total = 0.                                                  *)
(***************************************************************************)
C9_CountsAndProbabilityInRange ==
    baseline.exists =>
        \A t \in ThresholdSet : \A h \in HorizonSet :
            LET st == baseline.results[t][h]
            IN  /\ 0 <= st.n_hit /\ st.n_hit <= st.n_total
                /\ st.n_total > 0 => (0 <= st.p_hit /\ st.p_hit <= Pow10(ProbDecimals))
                /\ st.n_total = 0 => st.p_hit = 0

\* a ledger without the t_hit_up_1 column (n_total = 0 there) in which every row
\* hits threshold 0.5 within 96 hours (p_hit = 1)
C9_Witness ==
    /\ baseline.exists
    /\ baseline.results[10][12].n_total = 0
    /\ baseline.results[5][96].n_total >= 2
    /\ baseline.results[5][96].p_hit = Pow10(ProbDecimals)
    /\ baseline.results[5][12].n_hit = 0

(***************************************************************************)
(* C10  t_hit_up_t of a row is the first hour i in 1..96 whose own high    *)
(* is >= entry_close * (1 + t/100), and is empty when no hour of the       *)
(* window reaches that target.                                             *)
(***************************************************************************)
HighAt(master, entry_ts, i) == master[entry_ts + HourSeconds * i][3]

OwnHighReaches(master, row, thr, i) ==
    HighAt(master, row.entry_ts_utc[1], i) * 1000 >= row.entry_close[1] * (1000 + thr)

C10_TimeToHitIsFirstHourReachingTarget ==
    LET master == TimelineNow
    IN  \A n \in 1..Len(AllRows) : \A thr \in ThresholdSet :
            LET row  == AllRows[n]
                cell == row.t_hit_up[fmt_thr(thr)]
                hits == {i \in 1..MaxHorizon : OwnHighReaches(master, row, thr, i)}
            IN  /\ hits = {} <=> cell = EMPTY
                /\ hits # {} => /\ cell = Str(CHOOSE i \in hits : \A j \in hits : i <= j)
                                /\ cell[1] \in 1..MaxHorizon

\* entry_close 100, a high of 103 at hour 20 and none of 102 before: t_hit_up_2 = 20,
\* and the 5 % target, which no hour reaches, is empty
C10_Witness ==
    \E n \in 1..Len(ledger.rows) :
        /\ ledger.rows[n].entry_close = Str(100)
        /\ HighAt(TimelineNow, 0, 20) = 103
        /\ \A i \in 1..19 : HighAt(TimelineNow, 0, i) < 102
        /\ ledger.rows[n].t_hit_up[fmt_thr(20)] = Str(20)
        /\ ledger.rows[n].t_hit_up[fmt_thr(50)] = EMPTY

(***************************************************************************)
(* C11  In every row and for every threshold, mdd_before_hit_up is present *)
(* exactly when t_hit_up is present; with the hit at hour tau it is        *)
(* min(0, percent change from entry_close of the lowest low of hours       *)
(* 1..tau, tau included); without a hit it is empty, not 0.                *)
(***************************************************************************)
LowAt(master, entry_ts, i) == master[entry_ts + HourSeconds * i][4]

LowestLowUpTo(master, entry_ts, tau) ==
    CHOOSE m \in {LowAt(master, entry_ts, i) : i \in 1..tau} :
        \A i \in 1..tau : m <= LowAt(master, entry_ts, i)

C11_DrawdownPresentIffHit ==
    LET master == TimelineNow
    IN  \A n \in 1..Len(AllRows) : \A k \in ThrKeys :
            LET row == AllRows[n]
                hit == row.t_hit_up[k]
                mdd == row.mdd_before_hit_up[k]
            IN  /\ mdd = EMPTY <=> hit = EMPTY
                /\ hit # EMPTY =>
                      LET low == LowestLowUpTo(master, row.entry_ts_utc[1], hit[1])
                          pct == round(pct_change(low, row.entry_close[1]), PctDecimals)
                      IN  mdd = Str(IF pct < 0 THEN pct ELSE 0)

\* entry_close 100, target 2 % hit at hour 20 and a low of 98 in that same hour:
\* the drawdown is -2.0; the 5 % target is never hit and its drawdown is empty
C11_Witness ==
    \E n \in 1..Len(ledger.rows) :
        /\ ledger.rows[n].entry_close = Str(100)
        /\ ledger.rows[n].t_hit_up[fmt_thr(20)] = Str(20)
        /\ LowAt(TimelineNow, 0, 20) = 98
        /\ \A i \in 1..19 : LowAt(TimelineNow, 0, i) = 100
        /\ ledger.rows[n].mdd_before_hit_up[fmt_thr(20)] = Str(-20000)
        /\ ledger.rows[n].t_hit_up[fmt_thr(50)] = EMPTY
        /\ ledger.rows[n].mdd_before_hit_up[fmt_thr(50)] = EMPTY

(***************************************************************************)
(* C12  build_master_candle_map is first-seen-wins: the keys of the        *)
(* timeline are the timestamps of the well-formed bars of all snapshots,   *)
(* and the bar stored for a timestamp is the well-formed bar with that     *)
(* timestamp at the earliest position of the earliest file in path order.  *)
(***************************************************************************)
WellFormed(c) == Len(c) >= BarFields

\* <<j, i>>: bar i of the j-th file in path order
BarPositions(paths) ==
    UNION {{<<j, i>> : i \in 1..Len(CandlesOf(paths[j]))} : j \in 1..Len(paths)}

BarOf(paths, ji) == CandlesOf(paths[ji[1]])[ji[2]]

Earlier(a, b) == a[1] < b[1] \/ (a[1] = b[1] /\ a[2] <= b[2])

WellFormedAt(paths, ts) ==
    {ji \in BarPositions(paths) : WellFormed(BarOf(paths, ji)) /\ BarOf(paths, ji)[1] = ts}

C12_FirstSeenWins ==
    tprobe.called =>
        LET paths  == iter_history_files(history)
            stamps == {BarOf(paths, ji)[1] :
                          ji \in {x \in BarPositions(paths) : WellFormed(BarOf(paths, x))}}
        IN  /\ DOMAIN tprobe.out = stamps
            /\ \A ts \in stamps :
                  LET first == CHOOSE a \in WellFormedAt(paths, ts) :
                                   \A b \in WellFormedAt(paths, ts) : Earlier(a, b)
                  IN  tprobe.out[ts] = BarOf(paths, first)

\* the first file holds two different bars of hour 0 and the second file a third
\* occurrence: the first bar of the first file is the one stored
C12_Witness ==
    /\ tprobe.called
    /\ \E d1, d2 \in history :
          /\ d1.path < d2.path
          /\ d1.candles = <<ProbeBar(0, 1, BarFields), ProbeBar(0, 2, BarFields)>>
          /\ \E i \in 1..Len(d2.candles) : d2.candles[i] = ProbeBar(0, 2, BarFields)
    /\ tprobe.out[0] = ProbeBar(0, 1, BarFields)

(***************************************************************************)
(* C13  A bar with fewer than 6 fields, or an empty bar, is skipped: it is *)
(* never stored, the build goes on, and the timeline is the one built from *)
(* the same files without their malformed bars, so a well-formed bar after *)
(* it, the same timestamp included, is inserted.                           *)
(***************************************************************************)
WithoutMalformed(d) == [d EXCEPT !.candles = SelectSeq(@, WellFormed)]

C13_MalformedBarsBlockNothing ==
    tprobe.called =>
        /\ \A ts \in DOMAIN tprobe.out : WellFormed(tprobe.out[ts])
        /\ tprobe.out =
              build_master_candle_map(iter_history_files({WithoutMalformed(d) : d \in history}))
        /\ \A d \in history : \A i \in 1..Len(d.candles) :
              WellFormed(d.candles[i]) => d.candles[i][1] \in DOMAIN tprobe.out

\* the first file starts with a 5-field bar of hour 0 followed by an empty bar; the
\* well-formed bar of hour 0 in the second file is stored
C13_Witness ==
    /\ tprobe.called
    /\ \E d1, d2 \in history :
          /\ d1.path < d2.path
          /\ d1.candles = <<ProbeBar(0, 1, BarFields - 1), <<>> >>
          /\ d2.candles = <<ProbeBar(0, 2, BarFields), ProbeBar(1, 1, BarFields)>>
    /\ tprobe.out = (0 :> ProbeBar(0, 2, BarFields)) @@ (HourSeconds :> ProbeBar(1, 1, BarFields))

(***************************************************************************)
(* C14  Whenever the entry resolver gives a snapshot an entry point, its   *)
(* entry_ts is a key of the timeline built from a snapshot set that        *)
(* contains the snapshot.                                                  *)
(***************************************************************************)
EntryOf(d) == get_entry_ts_and_close_from_snapshot(load_json(d))

C14_EntryPointIsTimelineKey ==
    \A p \in Procs :
        run[p].pc = "loop" =>
            \A j \in 1..Len(run[p].history_paths) :
                ~EntryOf(run[p].history_paths[j]).isNone
                    => EntryOf(run[p].history_paths[j]).entry_ts \in DOMAIN run[p].master

(***************************************************************************)
(* C15  The entry resolver gives no entry point exactly when the snapshot  *)
(* has no bars or its last bar has fewer than 5 fields, and otherwise the  *)
(* last bar's timestamp and close; a snapshot without entry point gets no  *)
(* row, is counted as skipped, and the run goes on to the last snapshot.   *)
(***************************************************************************)
LastBar(d) == CandlesOf(d)[Len(CandlesOf(d))]

HasEntryPoint(d) == Len(CandlesOf(d)) > 0 /\ Len(LastBar(d)) >= EntryFields

NoEntryPoint(paths) == {j \in 1..Len(paths) : ~HasEntryPoint(paths[j])}

C17_EntrySkipsCountedApart ==
    \A n \in 1..Len(runlog) :
        runlog[n].past_checks
            => runlog[n].skipped_missing = Cardinality(NoEntryPoint(runlog[n].paths))

(***************************************************************************)
(* C16  A run that finds its source unavailable (label builder: no         *)
(* snapshot files or no bars; aggregator: no ledger file) writes nothing   *)
(* and ends with a non-zero status.                                        *)
(***************************************************************************)
\* the aggregator's side: status 0 only with a ledger file, and after status 1 there
\* is no baseline
C16_AggregatorFailsWithoutLedger ==
    /\ agg_exit = SomeInt(0) => ledger.exists
    /\ agg_exit = SomeInt(1) => ~baseline.exists

C16_UnavailableSourceIsFatal ==
    /\ C16_AggregatorFailsWithoutLedger
    /\ \A n \in 1..Len(runlog) :
          ~runlog[n].past_checks =>
              /\ runlog[n].exit_code # 0
              /\ runlog[n].added = 0
              /\ n = 1 => runlog[n].ledger = NoFile

(***************************************************************************)
(* C18  quantile(v, q) of a sorted list v of length n is absent for n = 0, *)
(* v[0] for n = 1, and otherwise v[lo]*(1-frac) + v[hi]*frac with          *)
(* p = q*(n-1), lo = floor(p), hi = min(lo+1, n-1), frac = p - lo; so      *)
(* quantile([5], q) = 5, quantile([1,2,3,4], 0.5) = 2.5, quantile([], q)   *)
(* is absent.  Values are times QuantScale and q is in hundredths.         *)
(***************************************************************************)
C18_QuantileInterpolates ==
    qprobe.called =>
        LET v == qprobe.sorted_vals
            n == Len(v)
            p == qprobe.q * (n - 1)
        IN  /\ n = 0 => qprobe.out = NoInt
            /\ n = 1 => qprobe.out = SomeInt(QuantScale * v[1])
            /\ n > 1 =>
                  \* lo is the floor of p / QuantScale, indices from 0 as in the code
                  LET lo == CHOOSE k \in 0..(n - 1) :
                                k * QuantScale <= p /\ p < (k + 1) * QuantScale
                      hi == IF lo + 1 <= n - 1 THEN lo + 1 ELSE n - 1
                  IN  /\ ~qprobe.out.isNone
                      /\ qprobe.out.n =
                            QuantScale * v[lo + 1] + (v[hi + 1] - v[lo + 1]) * (p - lo * QuantScale)
                      /\ QuantScale * v[1] <= qprobe.out.n
                      /\ qprobe.out.n <= QuantScale * v[n]
            /\ v = <<5>> => qprobe.out = SomeInt(5 * QuantScale)
            /\ (v = <<1, 2, 3, 4>> /\ qprobe.q = 50) => qprobe.out = SomeInt(250)

\* quantile([1, 2, 3, 4], 0.5) = 2.5
C18_Witness ==
    /\ qprobe.called
    /\ qprobe.sorted_vals = <<1, 2, 3, 4>>
    /\ qprobe.q = 50
    /\ qprobe.out = SomeInt(250)

(***************************************************************************)
(* C19  For each (threshold, horizon) pair n_total is the number of ledger *)
(* rows that have the threshold's t_hit_up column (an empty hit time still *)
(* counts), n_hit the number of those whose hit time is a number <= the    *)
(* horizon, and p_hit is n_hit / n_total (to 6 decimals); three rows for   *)
(* threshold 1 at horizon 24, two of them hit, give 3, 2 and 0.6667.       *)
(***************************************************************************)
IsNumberCell(cell) == Len(cell) = 1

C19_CountsOfRowsAndHits ==
    baseline.exists =>
        \A t \in ThresholdSet : \A h \in HorizonSet :
            LET st     == baseline.results[t][h]
                column == fmt_thr(t) \in ledger.header.thr_keys
                hits   == {i \in 1..Len(ledger.rows) :
                              /\ column
                              /\ IsNumberCell(ledger.rows[i].t_hit_up[fmt_thr(t)])
                              /\ ledger.rows[i].t_hit_up[fmt_thr(t)][1] <= h}
            IN  /\ st.n_total = IF column THEN Len(ledger.rows) ELSE 0
                /\ st.n_hit = Cardinality(hits)
                \* p_hit is within half a unit of the 6th decimal of n_hit / n_total
                /\ st.n_total > 0 =>
                      /\ 2 * (st.p_hit * st.n_total - st.n_hit * Pow10(ProbDecimals)) <= st.n_total
                      /\ 2 * (st.n_hit * Pow10(ProbDecimals) - st.p_hit * st.n_total) <= st.n_total

\* three rows, t_hit_up_1 = 24 in two of them and empty in the third: at horizon 24
\* n_total = 3, n_hit = 2, p_hit = 0.666667, which is 0.6667 to four decimals
C19_Witness ==
    /\ baseline.exists
    /\ Len(ledger.rows) = 3
    /\ fmt_thr(10) \in ledger.header.thr_keys
    /\ Cardinality({i \in 1..3 : ledger.rows[i].t_hit_up[fmt_thr(10)] = Str(24)}) = 2
    /\ Cardinality({i \in 1..3 : ledger.rows[i].t_hit_up[fmt_thr(10)] = EMPTY}) = 1
    /\ baseline.results[10][24].n_total = 3
    /\ baseline.results[10][24].n_hit = 2
    /\ baseline.results[10][24].p_hit = 666667
    /\ RoundDiv(baseline.results[10][24].p_hit, 100) = 6667
    /\ baseline.results[10][12].n_hit = 0

(***************************************************************************)
(* C20  For a (threshold, horizon) pair without hits the three hit-time    *)
(* quantiles and the three drawdown quantiles are absent (null in the      *)
(* JSON results, an empty field in the CSV), not 0; and a quantile is      *)
(* absent only when its list of values is empty.                           *)
(***************************************************************************)
Absent(x, cell) == x.isNone /\ cell = EMPTY

Present(x, cell) == ~x.isNone /\ cell = Str(x.n)

C20_AbsentQuantilesOnlyForEmptyLists ==
    baseline.exists =>
        \A t \in ThresholdSet : \A h \in HorizonSet :
            LET st     == baseline.results[t][h]
                column == fmt_thr(t) \in ledger.header.thr_keys
                hits   == {i \in 1..Len(ledger.rows) :
                              /\ column
                              /\ IsNumberCell(ledger.rows[i].t_hit_up[fmt_thr(t)])
                              /\ ledger.rows[i].t_hit_up[fmt_thr(t)][1] <= h}
                drawn  == {i \in hits : IsNumberCell(ledger.rows[i].mdd_before_hit_up[fmt_thr(t)])}
            IN  /\ IF hits = {}
                   THEN /\ Absent(st.t_hit_p25, st.csv.t_hit_p25)
                        /\ Absent(st.t_hit_median, st.csv.t_hit_median)
                        /\ Absent(st.t_hit_p75, st.csv.t_hit_p75)
                   ELSE /\ Present(st.t_hit_p25, st.csv.t_hit_p25)
                        /\ Present(st.t_hit_median, st.csv.t_hit_median)
                        /\ Present(st.t_hit_p75, st.csv.t_hit_p75)
                /\ IF drawn = {}
                   THEN /\ Absent(st.mdd_p25, st.csv.mdd_p25)
                        /\ Absent(st.mdd_median, st.csv.mdd_median)
                        /\ Absent(st.mdd_p75, st.csv.mdd_p75)
                   ELSE /\ Present(st.mdd_p25, st.csv.mdd_p25)
                        /\ Present(st.mdd_median, st.csv.mdd_median)
                        /\ Present(st.mdd_p75, st.csv.mdd_p75)

\* threshold 1: no hit at horizon 12, all six quantiles absent; at horizon 24 the hits
\* have a drawdown of 0 (clamped) and the drawdown quantiles are 0, not absent
C20_Witness ==
    /\ baseline.exists
    /\ baseline.results[10][12].n_total > 0
    /\ baseline.results[10][12].n_hit = 0
    /\ baseline.results[10][12].t_hit_median = NoInt
    /\ baseline.results[10][12].mdd_median = NoInt
    /\ baseline.results[10][12].csv.t_hit_median = EMPTY
    /\ baseline.results[10][12].csv.mdd_median = EMPTY
    /\ baseline.results[10][24].n_hit > 0
    /\ baseline.results[10][24].t_hit_median = SomeInt(24 * QuantScale)
    /\ baseline.results[10][24].mdd_median = SomeInt(0)
    /\ baseline.results[10][24].csv.mdd_median = Str(0)
    \* hits at time 0 without a drawdown value: hit-time quantiles 0, drawdowns absent
    /\ baseline.results[5][12].n_hit > 0
    /\ baseline.results[5][12].t_hit_median = SomeInt(0)
    /\ baseline.results[5][12].mdd_median = NoInt

(***************************************************************************)
(* C21  With entry_close = 0 the label computation is defined for every    *)
(* forward window: max_up_pct, max_down_pct, close_change_pct and          *)
(* range_pct are 0 at every horizon, every present mdd_before_hit_up is 0, *)
(* and the row is appended.                                                *)
(***************************************************************************)
C21_ZeroEntryCloseGivesZeroLabels ==
    /\ \A n \in 1..Len(AllRows) :
          AllRows[n].entry_close = Str(0) =>
              /\ \A h \in HorizonSet :
                    /\ AllRows[n].max_up_pct[h] = Str(0)
                    /\ AllRows[n].max_down_pct[h] = Str(0)
                    /\ AllRows[n].close_change_pct[h] = Str(0)
                    /\ AllRows[n].range_pct[h] = Str(0)
              /\ \A k \in ThrKeys :
                    AllRows[n].mdd_before_hit_up[k] \in {EMPTY, Str(0)}
    \* a finished run over a snapshot with entry_close 0 and a complete window has its row
    /\ \A n \in 1..Len(runlog) :
          runlog[n].past_checks =>
              \A j \in 1..Len(runlog[n].paths) :
                  LET d == runlog[n].paths[j]
                      e == EntryOf(d)
                      master == TimelineNow
                  IN  (/\ ~e.isNone
                       /\ e.entry_close = 0
                       /\ \A k \in 1..MaxHorizon : HourPresent(master, e.entry_ts, k))
                          => \E i \in 1..Len(runlog[n].ledger.rows) :
                                RowKey(runlog[n].ledger.rows[i]) = StoredKey(d)

\* a row with entry_close 0 under highs and lows around 100: every target is hit in
\* hour 1 and the drawdown is 0
C21_Witness ==
    \E n \in 1..Len(ledger.rows) :
        /\ ledger.rows[n].entry_close = Str(0)
        /\ HighAt(TimelineNow, 0, 20) = 103
        /\ LowAt(TimelineNow, 0, 10) = 90
        /\ ledger.rows[n].max_up_pct[24] = Str(0)
        /\ ledger.rows[n].range_pct[96] = Str(0)
        /\ \A k \in ThrKeys : /\ ledger.rows[n].t_hit_up[k] = Str(1)
                              /\ ledger.rows[n].mdd_before_hit_up[k] = Str(0)

(***************************************************************************)
(* C22  Label-builder runs that follow one another only append: in every   *)
(* step the rows already in the ledger stay an unchanged prefix of its     *)
(* rows, an existing file stays and keeps its header, and the ledgers left *)
(* by successive runs never get shorter.                                   *)
(***************************************************************************)
IsPrefix(s, t) == Len(s) <= Len(t) /\ SubSeq(t, 1, Len(s)) = s

C22_BuilderRunsAppendOnly ==
    [][/\ IsPrefix(ledger.rows, ledger'.rows)
       /\ ledger.exists => (ledger'.exists /\ ledger'.header = ledger.header)
       /\ \A n \in 1..Len(runlog') : \A m \in 1..n :
             IsPrefix(runlog'[m].ledger.rows, runlog'[n].ledger.rows)]_vars

\* the second run has appended a row behind the rows the first run left
C22_Witness ==
    /\ Len(runlog) = 2
    /\ runlog[1].added > 0
    /\ runlog[2].added > 0
    /\ Len(runlog[2].ledger.rows) > Len(runlog[1].ledger.rows)
    /\ IsPrefix(runlog[1].ledger.rows, ledger.rows)

(***************************************************************************)
(* C23  Once the aggregator has written its outputs, a run of the forecast *)
(* builder finds the Baseline Stat of (0.5, 12) and its p_hit is the       *)
(* aggregated p_hit, not null.                                             *)
(***************************************************************************)
C23_ForecastAttachesAggregatedPHit ==
    [][(baseline.exists /\ forecast'.exists /\ baseline' = baseline)
          => /\ forecast'.baseline_found
             /\ forecast'.p_hit =
                   SomeInt(baseline.results[DEFAULT_TARGET_PCT][DEFAULT_HORIZON_HOURS].p_hit)]_vars

\* Auxiliary to C23 (holds): the lookup reads the key horizon_hours and a top-level
\* "rows", which neither file of the aggregator has, so it finds no pair even when it
\* is pointed at them
C23_LookupFindsNoPairInAggregatorFiles ==
    baseline.exists =>
        \A path \in baseline_files(baseline) :
            extract_probability_from_baseline(baseline, path,
                DEFAULT_TARGET_PCT, DEFAULT_HORIZON_HOURS).p_hit = NoInt

(***************************************************************************)
(* C24  A repair run changes only the mdd_before_hit_up cells that spell a *)
(* number above 0, and sets each to 0.0; every other cell, the header, the *)
(* number of rows and their order stay.  After a repair run no drawdown    *)
(* cell is positive, and a second repair run makes no fix.                 *)
(***************************************************************************)
IsPositiveCell(cell) == Len(cell) = 1 /\ cell[1] > 0

C24_RepairClampsOnlyPositiveDrawdowns ==
    [][/\ (repair.pc = "loaded" /\ repair'.pc = "done") =>
             /\ ledger'.exists
             /\ ledger'.header = ledger.header
             /\ Len(ledger'.rows) = Len(ledger.rows)
             /\ \A n \in 1..Len(ledger.rows) :
                   /\ [ledger'.rows[n] EXCEPT !.mdd_before_hit_up =
                           ledger.rows[n].mdd_before_hit_up] = ledger.rows[n]
                   /\ \A k \in DOMAIN ledger.rows[n].mdd_before_hit_up :
                         ledger'.rows[n].mdd_before_hit_up[k] =
                             IF IsPositiveCell(ledger.rows[n].mdd_before_hit_up[k])
                             THEN Str(0)
                             ELSE ledger.rows[n].mdd_before_hit_up[k]
             /\ \A n \in 1..Len(ledger'.rows) :
                   \A k \in DOMAIN ledger'.rows[n].mdd_before_hit_up :
                       ~IsPositiveCell(ledger'.rows[n].mdd_before_hit_up[k])
       /\ ~(repair.pc = "loaded" /\ repair'.pc = "done") => ledger' = ledger
       /\ \A i \in 2..Len(repair'.fixes) : repair'.fixes[i] = 0]_vars

\* two repair runs have written the file: the first clamped a 0.5 beside a -2.5 and a
\* cell that is not a number, which are both still there, and the second fixed nothing
C24_Witness ==
    /\ Len(repair.fixes) = 2
    /\ repair.fixes[1] > 0
    /\ repair.fixes[2] = 0
    /\ repair.pc = "done"
    /\ Len(ledger.rows) = 2
    /\ ledger.rows[1].mdd_before_hit_up[fmt_thr(5)] = Str(-25000)
    /\ ledger.rows[2].mdd_before_hit_up[fmt_thr(5)] = <<0, 0>>
    /\ fmt_thr(10) \in DOMAIN ledger.rows[1].mdd_before_hit_up
    /\ ledger.rows[1].mdd_before_hit_up[fmt_thr(10)] = Str(0)

(***************************************************************************)
(* C25  At the end of every label-builder run that got past the            *)
(* source-availability checks, added + skipped_dupe + skipped_missing is   *)
(* the number of snapshot files listed, and the ledger has exactly `added` *)
(* rows more than before the run (runs one after another).                 *)
(***************************************************************************)
RowsBeforeRun(n) == IF n = 1 THEN 0 ELSE Len(runlog[n - 1].ledger.rows)

C25_CountersPartitionTheFiles ==
    \A n \in 1..Len(runlog) :
        runlog[n].past_checks =>
            /\ runlog[n].added + runlog[n].skipped_dupe + runlog[n].skipped_missing
                  = Len(runlog[n].paths)
            /\ Len(runlog[n].ledger.rows) = RowsBeforeRun(n) + runlog[n].added

\* a first run that added one row and skipped two snapshots, then a second run over
\* the same three files that skipped one as a duplicate and two again
C25_Witness ==
    /\ Len(runlog) = 2
    /\ runlog[1].past_checks /\ runlog[2].past_checks
    /\ Len(runlog[2].paths) = 3
    /\ runlog[1].added = 1 /\ runlog[1].skipped_missing = 2
    /\ runlog[2].added = 0 /\ runlog[2].skipped_dupe = 1 /\ runlog[2].skipped_missing = 2
    /\ Len(runlog[2].ledger.rows) = 1

(***************************************************************************)
(* C26  Time-to-hit coherence: in every row the label builder writes, for  *)
(* every threshold t, a present t_hit_up_t = tau has 1 <= tau <= 96 and    *)
(* max_up_pct_h >= t for every horizon h >= tau, whatever the entry_close  *)
(* (zero and negative included).                                           *)
(***************************************************************************)
\* a threshold in tenths of a percent, on the scale of the percent cells
ThrAsPct(thr) == thr * (Pow10(PctDecimals) \div 10)

CoherentRow(row) ==
    \A thr \in ThresholdSet :
        LET cell == row.t_hit_up[fmt_thr(thr)]
        IN  cell # EMPTY =>
                /\ cell[1] \in 1..MaxHorizon
                /\ \A h \in HorizonSet :
                      h >= cell[1] => row.max_up_pct[h][1] >= ThrAsPct(thr)

C26_TimeToHitCoherent ==
    \A n \in 1..Len(AllRows) : CoherentRow(AllRows[n])

\* C26 for the rows whose entry_close is positive (holds)
C26_TimeToHitCoherent_PositiveEntry ==
    \A n \in 1..Len(AllRows) :
        AllRows[n].entry_close[1] > 0 => CoherentRow(AllRows[n])

(***************************************************************************)
(* C27  In a row written for an entry_close above 0, hits are monotone in  *)
(* the threshold: for thresholds t1 < t2, a present t_hit_up_t2 comes with *)
(* a present t_hit_up_t1 <= t_hit_up_t2 and with mdd_before_hit_up_t2 <=   *)
(* mdd_before_hit_up_t1, and a present t_hit_down_t2 comes with a present  *)
(* t_hit_down_t1 <= t_hit_down_t2.                                         *)
(***************************************************************************)
ThresholdPairs == {<<a, b>> \in ThresholdSet \X ThresholdSet : a < b}

C27_HitsMonotoneInThreshold ==
    \A n \in 1..Len(AllRows) : \A tt \in ThresholdPairs :
        LET row == AllRows[n]
            k1  == fmt_thr(tt[1])
            k2  == fmt_thr(tt[2])
        IN  row.entry_close[1] > 0 =>
                /\ row.t_hit_up[k2] # EMPTY =>
                      /\ row.t_hit_up[k1] # EMPTY
                      /\ row.t_hit_up[k1][1] <= row.t_hit_up[k2][1]
                      /\ row.mdd_before_hit_up[k1] # EMPTY
                      /\ row.mdd_before_hit_up[k2] # EMPTY
                      /\ row.mdd_before_hit_up[k2][1] <= row.mdd_before_hit_up[k1][1]
                /\ row.t_hit_down[k2] # EMPTY =>
                      /\ row.t_hit_down[k1] # EMPTY
                      /\ row.t_hit_down[k1][1] <= row.t_hit_down[k2][1]

\* entry_close 100, highs of 101 at hour 12 and 104 at hour 60, a low of 98 at hour
\* 20: the 0.5 % target is hit at 12 with no drawdown and the 2 % target at 60 after
\* a drawdown of 2 %; the falls of 0.5 % and 2 % are both hit at hour 20 and the fall
\* of 3 % never
C27_Witness ==
    \E n \in 1..Len(ledger.rows) :
        LET row == ledger.rows[n]
        IN  /\ row.entry_close = Str(100)
            /\ row.t_hit_up[fmt_thr(5)] = Str(12)
            /\ row.t_hit_up[fmt_thr(20)] = Str(60)
            /\ row.mdd_before_hit_up[fmt_thr(5)] = Str(0)
            /\ row.mdd_before_hit_up[fmt_thr(20)] = Str(-20000)
            /\ row.t_hit_down[fmt_thr(5)] = Str(20)
            /\ row.t_hit_down[fmt_thr(20)] = Str(20)
            /\ row.t_hit_down[fmt_thr(30)] = EMPTY

(***************************************************************************)
(* C28  A skip for an incomplete forward window is not permanent: the      *)
(* snapshot (its entry point resolvable) leaves no row in the ledger, and  *)
(* the next run whose timeline holds all 96 hours after its entry_ts       *)
(* appends exactly one row with its key.                                   *)
(***************************************************************************)
RowsWithKey(rows, key) == Cardinality({i \in 1..Len(rows) : RowKey(rows[i]) = key})

WindowComplete(master, entry_ts) ==
    \A k \in 1..MaxHorizon : HourPresent(master, entry_ts, k)

C29_BaselinePassesValidation ==
    [][(baseline.exists /\ baseline' = baseline /\ report' # report) =>
          /\ ledger.rows # <<>>
          /\ report'.status = "OK"
          /\ report'.missing_pairs = 0
          /\ report'.bad_counts = 0
          /\ report'.bad_prob = 0
          /\ report'.mono_viol = 0]_vars

\* the validator has said OK about a baseline with a pair of n_total = 0 (a ledger
\* without the t_hit_up_1 column) and a pair with p_hit = 2/3, written 0.666667
C29_Witness ==
    /\ report.status = "OK"
    /\ baseline.exists
    /\ baseline.results[10][12].n_total = 0
    /\ \E h \in HorizonSet : baseline.results[5][h].p_hit = 666667
    /\ baseline.results[5][12].p_hit < baseline.results[5][96].p_hit

(***************************************************************************)
(* C30  Under every interleaving of a repair run (read the whole ledger,   *)
(* then overwrite the file) with a label-builder run on the same ledger,   *)
(* every row the builder appended is in the ledger once both have          *)
(* finished.                                                               *)
(***************************************************************************)
\* the snapshots a finished builder run has a row for: entry point resolvable and all
\* 96 hours after it in the timeline
Labelled(master, d) ==
    /\ ~EntryOf(d).isNone
    /\ WindowComplete(master, EntryOf(d).entry_ts)

C30_RepairLosesNoAppendedRow ==
    (/\ run[1].pc = "done"
     /\ repair.pc = "done"
     /\ Len(runlog) >= 1
     /\ runlog[1].past_checks)
        => LET master == TimelineNow
           IN  \A d \in history :
                   Labelled(master, d) => RowsWithKey(ledger.rows, StoredKey(d)) >= 1

\* Auxiliary to C30 (holds): with no repair process beside it, a finished builder run
\* leaves a row for every such snapshot
C30_BuilderAloneKeepsItsRows ==
    (/\ run[1].pc = "done"
     /\ repair.runs = 0
     /\ Len(runlog) >= 1
     /\ runlog[1].past_checks)
        => LET master == TimelineNow
           IN  \A d \in history :
                   Labelled(master, d) => RowsWithKey(ledger.rows, StoredKey(d)) >= 1

====
